---- MODULE Spec2Model ----
(***************************************************************************)
(* Session lifecycle of kuta: SessionManager (Create, Verify, Destroy,     *)
(* DestroyBySessionID, DestroyAllUserSessions, Refresh) over a Storage     *)
(* collaborator (FakeSessionStorage) and an optional Cache                 *)
(* (InMemoryCache, FakeCache, fakeFailingCache, or nil).                   *)
(*                                                                         *)
(* Spec     : sequential calls.  Every call is applied to the manager      *)
(*            under test (sm) and, with the same inputs, to a reference    *)
(*            manager built with cache = nil (ref).                        *)
(* SpecConc : concurrent Verify / Destroy calls, one step per Storage or   *)
(*            Cache round trip.                                            *)
(* SpecDestroy : concurrent Destroy calls only.                            *)
(* SpecCache : Get, Set, Delete and Clear of an InMemoryCache on its own,  *)
(*            with its counters.                                           *)
(* SpecPassword : Hash and Verify of the Argon2 password hasher.           *)
(* SpecToken : GenerateHashedToken, VerifyToken and HashToken.             *)
(* SpecNanoID : NewNanoID and the loop of NanoIDGenerator.Generate.        *)
(* SpecRegistry : RegisterPlugin calls on an EndpointRegistry.             *)
(***************************************************************************)
EXTENDS Integers, FiniteSets, Sequences, TLC

\* ---------------------------------------------------------------- bounds
MaxTokens == 2
MaxTime == 2
NumProcs == 2

\* ------------------------------------------------------- values and errors
\* a nil pointer (session, cache) and a nil error
Nil == [nil |-> TRUE]
NoErr == "nil"
\* the empty string, as a token, a session id and a user id
EmptyToken == 0
EmptyID == <<>>
EmptyUser == ""

ErrUserNotFound == "user not found"
ErrUserExists == "user already exists"
ErrEmailRequired == "email is required"
ErrPasswordRequired == "password is required"
\* the error of a StorageProvider that could not write an account
AccountWriteErr == "create account failed"
ErrInvalidToken == "invalid session token"
ErrSessionNotFound == "session not found"
ErrSessionExpired == "session expired"
ErrCacheNotFound == "session not found in cache"

\* errors.New("session not found") of the fake storage: same text as
\* ErrSessionNotFound, a different error value
FakeNotFound == "errors.New: session not found"
InjectedCreateErr == "createErr"
InjectedGetErr == "getErr"
InjectedDeleteErr == "deleteErr"
RandErr == "rand.Read failed"
CacheOpErr == "cache operation failed"
\* the run-time panic of reading a field through a nil *core.Session
NilDereference == "panic: invalid memory address or nil pointer dereference"

Users == {"u1", "u2"}
\* callers: user id, client IP, client user agent
Callers == {<<"u1", "ip1", "ua1">>, <<"u2", "ip2", "ua2">>}
MaxAges == {-1, 1}
CacheKinds == {"nil", "InMemoryCache", "FakeCache", "fakeFailingCache"}
CacheTTL == 1
CacheMaxSize == 1
\* NewInMemoryCache: the TTL (5 minutes, in seconds) and the size of a
\* configuration that leaves them 0
DefaultTTL == 300
DefaultMaxSize == 500

Tokens == 1..MaxTokens
BogusToken == MaxTokens + 1
Times == 0..MaxTime

\* ------------------------------------------------------------------- maps
EmptyMap == <<>>
MapPut(m, k, v) == [x \in (DOMAIN m) \cup {k} |-> IF x = k THEN v ELSE m[x]]
MapDel(m, k) == [x \in (DOMAIN m) \ {k} |-> m[x]]
Has(m, k) == k \in DOMAIN m

\* ----------------------------------------------------------------- crypto
\* mutant: the token itself in place of its digest
HashToken_Plain(token) == <<"plain", token>>

\* sha256 + hex: a one-way image in another alphabet than the token
HashToken(token) == <<"sha256", token>>
\* nanoid of the n-th draw
NanoID(n) == <<"id", n>>

\* ------------------------------------------------------------ call trace
\* one Storage or cache operation made by a SessionManager method, with the
\* key it was given; for a cache Get also the counter it incremented
IO(name, arg) == <<name, arg>>
IOGet(tokenHash, stat) == <<"cache.Get", tokenHash, stat>>

\* ---------------------------------------------------------------- storage
\* FakeSessionStorage: st = [sessions, createErr, getErr, deleteErr]
NewFakeSessionStorage == [sessions |-> EmptyMap, createErr |-> FALSE, getErr |-> FALSE, deleteErr |-> FALSE]

CreateSession(st, s) ==
    IF st.createErr THEN [st |-> st, err |-> InjectedCreateErr]
    ELSE [st |-> [st EXCEPT !.sessions = MapPut(@, s.TokenHash, s)], err |-> NoErr]

GetSessionByHash(st, tokenHash) ==
    IF st.getErr THEN [session |-> Nil, err |-> InjectedGetErr]
    ELSE IF ~Has(st.sessions, tokenHash) THEN [session |-> Nil, err |-> FakeNotFound]
    ELSE [session |-> st.sessions[tokenHash], err |-> NoErr]

GetSessionByID(st, id) ==
    LET hit == {k \in DOMAIN st.sessions : st.sessions[k].ID = id}
    IN  IF hit = {} THEN [session |-> Nil, err |-> FakeNotFound]
        ELSE [session |-> st.sessions[CHOOSE k \in hit : TRUE], err |-> NoErr]

\* mutant: a delete by digest that reports success for an absent digest
DeleteSessionByHash_Lenient(st, tokenHash) ==
    IF st.deleteErr THEN [st |-> st, err |-> InjectedDeleteErr]
    ELSE [st |-> [st EXCEPT !.sessions = MapDel(@, tokenHash)], err |-> NoErr]

DeleteSessionByHash(st, tokenHash) ==
    IF st.deleteErr THEN [st |-> st, err |-> InjectedDeleteErr]
    ELSE IF ~Has(st.sessions, tokenHash) THEN [st |-> st, err |-> ErrSessionNotFound]
    ELSE [st |-> [st EXCEPT !.sessions = MapDel(@, tokenHash)], err |-> NoErr]

DeleteSessionByID(st, id) ==
    LET hit == {k \in DOMAIN st.sessions : st.sessions[k].ID = id}
    IN  IF st.deleteErr THEN [st |-> st, err |-> InjectedDeleteErr]
        ELSE IF hit = {} THEN [st |-> st, err |-> ErrSessionNotFound]
        ELSE [st |-> [st EXCEPT !.sessions = MapDel(@, CHOOSE k \in hit : TRUE)], err |-> NoErr]

DeleteUserSessions(st, userID) ==
    LET gone == {k \in DOMAIN st.sessions : st.sessions[k].UserID = userID}
    IN  [st |-> [st EXCEPT !.sessions = [k \in (DOMAIN @) \ gone |-> @[k]]],
         count |-> Cardinality(gone), err |-> NoErr]

\* ------------------------------------------------------------------ cache
\* c = [kind, cache, getErr, setErr, delErr, clearErr]
\*   kind = "InMemoryCache"    : cache maps a digest to [session, cachedAt]
\*   kind = "FakeCache"        : cache maps a digest to [session, cachedAt],
\*                               cachedAt unused; the four error fields inject
\*   kind = "fakeFailingCache" : holds nothing
\* Every operation of the InMemoryCache also returns "count": what it adds to
\* the counters hits, misses, sets, deletes, evictions of the cache.
NoCount == [hits |-> 0, misses |-> 0, sets |-> 0, deletes |-> 0, evictions |-> 0]
Count(counter) == [NoCount EXCEPT ![counter] = 1]
AddCount(a, b) == [k \in DOMAIN NoCount |-> a[k] + b[k]]

\* c: a core.CacheConfig, [TTL, MaxSize]
NewInMemoryCache(c) ==
    [kind |-> "InMemoryCache", cache |-> EmptyMap, getErr |-> FALSE, setErr |-> FALSE,
     delErr |-> FALSE, clearErr |-> FALSE,
     ttl |-> IF c.TTL = 0 THEN DefaultTTL ELSE c.TTL,
     maxSize |-> IF c.MaxSize = 0 THEN DefaultMaxSize ELSE c.MaxSize]

NewCache(kind) ==
    IF kind = "nil" THEN Nil
    ELSE IF kind = "InMemoryCache" THEN NewInMemoryCache([TTL |-> CacheTTL, MaxSize |-> CacheMaxSize])
    ELSE [kind |-> kind, cache |-> EmptyMap, getErr |-> FALSE, setErr |-> FALSE,
          delErr |-> FALSE, clearErr |-> FALSE, ttl |-> 0, maxSize |-> 0]

\* mutant: Read that takes an entry for expired as soon as its age reaches the TTL
InMemoryCache_Read_ExpiresAtTTL(c, tokenHash, now) ==
    IF ~Has(c.cache, tokenHash) THEN "absent"
    ELSE IF now - c.cache[tokenHash].cachedAt >= c.ttl THEN "expired"
    ELSE "hit"

\* mutant: Set that evicts only once the cache is over its capacity
InMemoryCache_Set_EvictsLate(c, tokenHash, session, now, victim) ==
    LET keys == DOMAIN c.cache
        v == IF victim \in keys THEN victim ELSE CHOOSE k \in keys : TRUE
        full == Cardinality(keys) > c.maxSize /\ keys # {}
        kept == IF full THEN MapDel(c.cache, v) ELSE c.cache
    IN  [c |-> [c EXCEPT !.cache = MapPut(kept, tokenHash, [session |-> session, cachedAt |-> now])],
         err |-> NoErr,
         count |-> IF full THEN AddCount(Count("evictions"), Count("sets")) ELSE Count("sets")]

\* mutant: Set that empties a full cache
InMemoryCache_Set_EvictsAll(c, tokenHash, session, now, victim) ==
    LET full == Cardinality(DOMAIN c.cache) >= c.maxSize /\ DOMAIN c.cache # {}
        kept == IF full THEN EmptyMap ELSE c.cache
    IN  [c |-> [c EXCEPT !.cache = MapPut(kept, tokenHash, [session |-> session, cachedAt |-> now])],
         err |-> NoErr,
         count |-> IF full THEN AddCount(Count("evictions"), Count("sets")) ELSE Count("sets")]

InMemoryCache_Delete(c, tokenHash) ==
    [c |-> [c EXCEPT !.cache = MapDel(@, tokenHash)], err |-> NoErr,
     count |-> IF Has(c.cache, tokenHash) THEN Count("deletes") ELSE NoCount]

\* the part of Get under the read lock: "absent", "expired" or "hit"
InMemoryCache_Read(c, tokenHash, now) ==
    IF ~Has(c.cache, tokenHash) THEN "absent"
    ELSE IF now - c.cache[tokenHash].cachedAt > c.ttl THEN "expired"
    ELSE "hit"

InMemoryCache_Get(c, tokenHash, now) ==
    LET seen == InMemoryCache_Read(c, tokenHash, now)
    IN  IF seen = "absent"
        THEN [c |-> c, session |-> Nil, err |-> ErrCacheNotFound, stat |-> "miss", count |-> Count("misses")]
        ELSE IF seen = "expired"
        THEN [c |-> InMemoryCache_Delete(c, tokenHash).c, session |-> Nil, err |-> ErrCacheNotFound,
              stat |-> "miss",
              count |-> AddCount(Count("misses"), InMemoryCache_Delete(c, tokenHash).count)]
        ELSE [c |-> c, session |-> c.cache[tokenHash].session, err |-> NoErr, stat |-> "hit",
              count |-> Count("hits")]

\* victim: the key Go's map iteration yields first
InMemoryCache_Set(c, tokenHash, session, now, victim) ==
    LET keys == DOMAIN c.cache
        v == IF victim \in keys THEN victim ELSE CHOOSE k \in keys : TRUE
        full == Cardinality(keys) >= c.maxSize /\ keys # {}
        kept == IF full THEN MapDel(c.cache, v) ELSE c.cache
    IN  [c |-> [c EXCEPT !.cache = MapPut(kept, tokenHash, [session |-> session, cachedAt |-> now])],
         err |-> NoErr,
         count |-> IF full THEN AddCount(Count("evictions"), Count("sets")) ELSE Count("sets")]

InMemoryCache_Clear(c) == [c |-> [c EXCEPT !.cache = EmptyMap], err |-> NoErr, count |-> NoCount]

FakeCache_Get(c, tokenHash) ==
    IF c.getErr THEN [c |-> c, session |-> Nil, err |-> CacheOpErr, stat |-> "none"]
    ELSE IF ~Has(c.cache, tokenHash) THEN [c |-> c, session |-> Nil, err |-> ErrCacheNotFound, stat |-> "miss"]
    ELSE [c |-> c, session |-> c.cache[tokenHash].session, err |-> NoErr, stat |-> "hit"]

FakeCache_Set(c, tokenHash, session) ==
    IF c.setErr THEN [c |-> c, err |-> CacheOpErr]
    ELSE [c |-> [c EXCEPT !.cache = MapPut(@, tokenHash, [session |-> session, cachedAt |-> 0])], err |-> NoErr]

FakeCache_Delete(c, tokenHash) ==
    IF c.delErr THEN [c |-> c, err |-> CacheOpErr]
    ELSE [c |-> [c EXCEPT !.cache = MapDel(@, tokenHash)], err |-> NoErr]

FakeCache_Clear(c) ==
    IF c.clearErr THEN [c |-> c, err |-> CacheOpErr]
    ELSE [c |-> [c EXCEPT !.cache = EmptyMap], err |-> NoErr]

fakeFailingCache_Get(c) == [c |-> c, session |-> Nil, err |-> ErrCacheNotFound, stat |-> "none"]
fakeFailingCache_Set(c) == [c |-> c, err |-> CacheOpErr]
fakeFailingCache_Delete(c) == [c |-> c, err |-> CacheOpErr]
fakeFailingCache_Clear(c) == [c |-> c, err |-> CacheOpErr]

\* core.Cache interface dispatch
Cache_Get(c, tokenHash, now) ==
    CASE c.kind = "InMemoryCache" -> InMemoryCache_Get(c, tokenHash, now)
      [] c.kind = "FakeCache" -> FakeCache_Get(c, tokenHash)
      [] OTHER -> fakeFailingCache_Get(c)

Cache_Set(c, tokenHash, session, now, victim) ==
    CASE c.kind = "InMemoryCache" -> InMemoryCache_Set(c, tokenHash, session, now, victim)
      [] c.kind = "FakeCache" -> FakeCache_Set(c, tokenHash, session)
      [] OTHER -> fakeFailingCache_Set(c)

Cache_Delete(c, tokenHash) ==
    CASE c.kind = "InMemoryCache" -> InMemoryCache_Delete(c, tokenHash)
      [] c.kind = "FakeCache" -> FakeCache_Delete(c, tokenHash)
      [] OTHER -> fakeFailingCache_Delete(c)

Cache_Clear(c) ==
    CASE c.kind = "InMemoryCache" -> InMemoryCache_Clear(c)
      [] c.kind = "FakeCache" -> FakeCache_Clear(c)
      [] OTHER -> fakeFailingCache_Clear(c)

\* --------------------------------------------------------- SessionManager
\* m = [config (MaxAge), storage, cache (Nil when caching is disabled)]
NewSessionManager(maxAge, storage, cache) == [config |-> maxAge, storage |-> storage, cache |-> cache]

\* mutant: a session whose expiry is the max-age counted from the epoch, not
\* from the clock reading
NewSession_ExpiryFromEpoch(m, userID, ip, userAgent, now, n) ==
    [ID |-> NanoID(n), UserID |-> userID, TokenHash |-> HashToken(n),
     IPAddress |-> ip, UserAgent |-> userAgent,
     CreatedAt |-> now, UpdatedAt |-> now, ExpiresAt |-> MaxTime + m.config]

\* mutant: a session that expires at the instant it is created
NewSession_ExpiresAtCreation(m, userID, ip, userAgent, now, n) ==
    [ID |-> NanoID(n), UserID |-> userID, TokenHash |-> HashToken(n),
     IPAddress |-> ip, UserAgent |-> userAgent,
     CreatedAt |-> now, UpdatedAt |-> now, ExpiresAt |-> now]

\* the session Create builds from the n-th draw of the random source
NewSession(m, userID, ip, userAgent, now, n) ==
    [ID |-> NanoID(n), UserID |-> userID, TokenHash |-> HashToken(n),
     IPAddress |-> ip, UserAgent |-> userAgent,
     CreatedAt |-> now, UpdatedAt |-> now, ExpiresAt |-> now + m.config]

\* a failed Create: no session, no token
CreateFailed(m, err, io) == [m |-> m, session |-> Nil, token |-> EmptyToken, err |-> err, io |-> io]

\* mutant: Create that does not write the session to the cache
Create_SkipsCache(m, userID, ip, userAgent, now, n, rnd, victim) ==
    LET session == NewSession(m, userID, ip, userAgent, now, n)
        w == CreateSession(m.storage, session)
        ioW == <<IO("storage.CreateSession", session.TokenHash)>>
    IN  IF rnd # "ok" THEN CreateFailed(m, RandErr, <<>>)
        ELSE IF w.err # NoErr THEN CreateFailed(m, w.err, ioW)
        ELSE [m |-> [m EXCEPT !.storage = w.st], session |-> session, token |-> n, err |-> NoErr, io |-> ioW]

\* mutant: Create that writes the cache before it persists the session
Create_CachesFirst(m, userID, ip, userAgent, now, n, rnd, victim) ==
    LET session == NewSession(m, userID, ip, userAgent, now, n)
        m1 == IF m.cache # Nil
              THEN [m EXCEPT !.cache = Cache_Set(@, HashToken(n), session, now, victim).c]
              ELSE m
        w == CreateSession(m.storage, session)
        ioS == IF m.cache # Nil THEN <<IO("cache.Set", HashToken(n))>> ELSE <<>>
        ioW == <<IO("storage.CreateSession", session.TokenHash)>>
    IN  IF rnd # "ok" THEN CreateFailed(m, RandErr, <<>>)
        ELSE IF w.err # NoErr THEN CreateFailed(m1, w.err, ioS \o ioW)
        ELSE [m |-> [m1 EXCEPT !.storage = w.st], session |-> session, token |-> n, err |-> NoErr,
              io |-> ioS \o ioW]

\* mutant: Create that returns the error of the cache write
Create_FailsOnCacheError(m, userID, ip, userAgent, now, n, rnd, victim) ==
    LET session == NewSession(m, userID, ip, userAgent, now, n)
        w == CreateSession(m.storage, session)
        m1 == [m EXCEPT !.storage = w.st]
        c == Cache_Set(m.cache, HashToken(n), session, now, victim)
        ioW == <<IO("storage.CreateSession", session.TokenHash)>>
        ioS == <<IO("cache.Set", HashToken(n))>>
    IN  IF rnd # "ok" THEN CreateFailed(m, RandErr, <<>>)
        ELSE IF w.err # NoErr THEN CreateFailed(m, w.err, ioW)
        ELSE IF m.cache = Nil THEN [m |-> m1, session |-> session, token |-> n, err |-> NoErr, io |-> ioW]
        ELSE IF c.err # NoErr THEN CreateFailed(m1, c.err, ioW \o ioS)
        ELSE [m |-> [m1 EXCEPT !.cache = c.c], session |-> session, token |-> n, err |-> NoErr,
              io |-> ioW \o ioS]

\* rnd: outcome of the random source, "ok", "token" (GenerateHashedToken
\* fails) or "id" (nanoid.Generate fails); n: index of the fresh draw
\* io: the Storage and cache operations the call made, in order
Create(m, userID, ip, userAgent, now, n, rnd, victim) ==
    LET session == NewSession(m, userID, ip, userAgent, now, n)
        w == CreateSession(m.storage, session)
        m1 == [m EXCEPT !.storage = w.st]
        ioW == <<IO("storage.CreateSession", session.TokenHash)>>
        ioS == <<IO("cache.Set", HashToken(n))>>
    IN  IF rnd # "ok" THEN CreateFailed(m, RandErr, <<>>)
        ELSE IF w.err # NoErr THEN CreateFailed(m, w.err, ioW)
        ELSE [m |-> IF m.cache # Nil
                    THEN [m1 EXCEPT !.cache = Cache_Set(@, HashToken(n), session, now, victim).c]
                    ELSE m1,
              session |-> session, token |-> n, err |-> NoErr,
              io |-> IF m.cache # Nil THEN ioW \o ioS ELSE ioW]

\* mutant: Verify that returns a cache hit without looking at its expiry
Verify_TrustsCache(m, token, now, victim) ==
    LET tokenHash == HashToken(token)
        g == Cache_Get(m.cache, tokenHash, now)
        hit == m.cache # Nil /\ g.err = NoErr
        m0 == IF m.cache # Nil THEN [m EXCEPT !.cache = g.c] ELSE m
        r == GetSessionByHash(m.storage, tokenHash)
        ioG == IF m.cache # Nil THEN <<IOGet(tokenHash, g.stat)>> ELSE <<>>
        ioR == ioG \o <<IO("storage.GetSessionByHash", tokenHash)>>
    IN  IF token = EmptyToken
        THEN [m |-> m, session |-> Nil, err |-> ErrInvalidToken, path |-> "input", io |-> <<>>]
        ELSE IF hit THEN [m |-> m0, session |-> g.session, err |-> NoErr, path |-> "cache", io |-> ioG]
        ELSE IF r.err # NoErr THEN [m |-> m0, session |-> Nil, err |-> r.err, path |-> "storage", io |-> ioR]
        ELSE IF r.session = Nil
        THEN [m |-> m0, session |-> Nil, err |-> ErrSessionNotFound, path |-> "storage", io |-> ioR]
        ELSE IF now > r.session.ExpiresAt
        THEN [m |-> m0, session |-> Nil, err |-> ErrSessionExpired, path |-> "storage", io |-> ioR]
        ELSE [m |-> IF m.cache # Nil
                    THEN [m0 EXCEPT !.cache = Cache_Set(@, tokenHash, r.session, now, victim).c]
                    ELSE m0,
              session |-> r.session, err |-> NoErr, path |-> "storage",
              io |-> IF m.cache # Nil THEN ioR \o <<IO("cache.Set", tokenHash)>> ELSE ioR]

\* mutant: Verify that does not write the session it read into the cache
Verify_NoWriteBack(m, token, now, victim) ==
    LET tokenHash == HashToken(token)
        g == Cache_Get(m.cache, tokenHash, now)
        hit == m.cache # Nil /\ g.err = NoErr
        m0 == IF m.cache # Nil THEN [m EXCEPT !.cache = g.c] ELSE m
        r == GetSessionByHash(m.storage, tokenHash)
        ioG == IF m.cache # Nil THEN <<IOGet(tokenHash, g.stat)>> ELSE <<>>
        ioR == ioG \o <<IO("storage.GetSessionByHash", tokenHash)>>
    IN  IF token = EmptyToken
        THEN [m |-> m, session |-> Nil, err |-> ErrInvalidToken, path |-> "input", io |-> <<>>]
        ELSE IF hit
        THEN IF now > g.session.ExpiresAt
             THEN [m |-> [m0 EXCEPT !.cache = Cache_Delete(@, tokenHash).c],
                   session |-> Nil, err |-> ErrSessionExpired, path |-> "cache",
                   io |-> ioG \o <<IO("cache.Delete", tokenHash)>>]
             ELSE [m |-> m0, session |-> g.session, err |-> NoErr, path |-> "cache", io |-> ioG]
        ELSE IF r.err # NoErr THEN [m |-> m0, session |-> Nil, err |-> r.err, path |-> "storage", io |-> ioR]
        ELSE IF r.session = Nil
        THEN [m |-> m0, session |-> Nil, err |-> ErrSessionNotFound, path |-> "storage", io |-> ioR]
        ELSE IF now > r.session.ExpiresAt
        THEN [m |-> m0, session |-> Nil, err |-> ErrSessionExpired, path |-> "storage", io |-> ioR]
        ELSE [m |-> m0, session |-> r.session, err |-> NoErr, path |-> "storage", io |-> ioR]

\* mutant: Verify that extends the expiry of the session it finds in Storage
Verify_SlidesExpiry(m, token, now, victim) ==
    LET tokenHash == HashToken(token)
        g == Cache_Get(m.cache, tokenHash, now)
        hit == m.cache # Nil /\ g.err = NoErr
        m0 == IF m.cache # Nil THEN [m EXCEPT !.cache = g.c] ELSE m
        r == GetSessionByHash(m.storage, tokenHash)
        slid == [r.session EXCEPT !.ExpiresAt = now + m.config, !.UpdatedAt = now]
        m1 == [m0 EXCEPT !.storage.sessions = MapPut(@, tokenHash, slid)]
        ioG == IF m.cache # Nil THEN <<IOGet(tokenHash, g.stat)>> ELSE <<>>
        ioR == ioG \o <<IO("storage.GetSessionByHash", tokenHash)>>
        ioU == ioR \o <<IO("storage.UpdateSession", tokenHash)>>
    IN  IF token = EmptyToken
        THEN [m |-> m, session |-> Nil, err |-> ErrInvalidToken, path |-> "input", io |-> <<>>]
        ELSE IF hit
        THEN IF now > g.session.ExpiresAt
             THEN [m |-> [m0 EXCEPT !.cache = Cache_Delete(@, tokenHash).c],
                   session |-> Nil, err |-> ErrSessionExpired, path |-> "cache",
                   io |-> ioG \o <<IO("cache.Delete", tokenHash)>>]
             ELSE [m |-> m0, session |-> g.session, err |-> NoErr, path |-> "cache", io |-> ioG]
        ELSE IF r.err # NoErr THEN [m |-> m0, session |-> Nil, err |-> r.err, path |-> "storage", io |-> ioR]
        ELSE IF r.session = Nil
        THEN [m |-> m0, session |-> Nil, err |-> ErrSessionNotFound, path |-> "storage", io |-> ioR]
        ELSE IF now > r.session.ExpiresAt
        THEN [m |-> m0, session |-> Nil, err |-> ErrSessionExpired, path |-> "storage", io |-> ioR]
        ELSE [m |-> IF m.cache # Nil
                    THEN [m1 EXCEPT !.cache = Cache_Set(@, tokenHash, slid, now, victim).c]
                    ELSE m1,
              session |-> slid, err |-> NoErr, path |-> "storage",
              io |-> IF m.cache # Nil THEN ioU \o <<IO("cache.Set", tokenHash)>> ELSE ioU]

\* path: where the answer came from, "input", "cache" or "storage"
\* io: the Storage and cache operations the call made, in order
Verify(m, token, now, victim) ==
    LET tokenHash == HashToken(token)
        g == Cache_Get(m.cache, tokenHash, now)
        hit == m.cache # Nil /\ g.err = NoErr
        m0 == IF m.cache # Nil THEN [m EXCEPT !.cache = g.c] ELSE m
        r == GetSessionByHash(m.storage, tokenHash)
        ioG == IF m.cache # Nil THEN <<IOGet(tokenHash, g.stat)>> ELSE <<>>
        ioR == ioG \o <<IO("storage.GetSessionByHash", tokenHash)>>
    IN  IF token = EmptyToken
        THEN [m |-> m, session |-> Nil, err |-> ErrInvalidToken, path |-> "input", io |-> <<>>]
        ELSE IF hit
        THEN IF g.session = Nil
             THEN [m |-> m0, session |-> Nil, err |-> NilDereference, path |-> "cache", io |-> ioG]
             ELSE IF now > g.session.ExpiresAt
             THEN [m |-> [m0 EXCEPT !.cache = Cache_Delete(@, tokenHash).c],
                   session |-> Nil, err |-> ErrSessionExpired, path |-> "cache",
                   io |-> ioG \o <<IO("cache.Delete", tokenHash)>>]
             ELSE [m |-> m0, session |-> g.session, err |-> NoErr, path |-> "cache", io |-> ioG]
        ELSE IF r.err # NoErr THEN [m |-> m0, session |-> Nil, err |-> r.err, path |-> "storage", io |-> ioR]
        ELSE IF r.session = Nil
        THEN [m |-> m0, session |-> Nil, err |-> ErrSessionNotFound, path |-> "storage", io |-> ioR]
        ELSE IF now > r.session.ExpiresAt
        THEN [m |-> m0, session |-> Nil, err |-> ErrSessionExpired, path |-> "storage", io |-> ioR]
        ELSE [m |-> IF m.cache # Nil
                    THEN [m0 EXCEPT !.cache = Cache_Set(@, tokenHash, r.session, now, victim).c]
                    ELSE m0,
              session |-> r.session, err |-> NoErr, path |-> "storage",
              io |-> IF m.cache # Nil THEN ioR \o <<IO("cache.Set", tokenHash)>> ELSE ioR]

\* mutant: Destroy that leaves the cache entry in place
Destroy_KeepsCache(m, token) ==
    LET d == DeleteSessionByHash(m.storage, HashToken(token))
        ioD == <<IO("storage.DeleteSessionByHash", HashToken(token))>>
    IN  IF token = EmptyToken THEN [m |-> m, err |-> ErrInvalidToken, io |-> <<>>]
        ELSE IF d.err # NoErr THEN [m |-> m, err |-> d.err, io |-> ioD]
        ELSE [m |-> [m EXCEPT !.storage = d.st], err |-> NoErr, io |-> ioD]

\* mutant: Destroy without the check of its argument
Destroy_NoInputCheck(m, token) ==
    LET tokenHash == HashToken(token)
        d == DeleteSessionByHash(m.storage, tokenHash)
        m1 == [m EXCEPT !.storage = d.st]
        ioD == <<IO("storage.DeleteSessionByHash", tokenHash)>>
    IN  IF d.err # NoErr THEN [m |-> m, err |-> d.err, io |-> ioD]
        ELSE [m |-> IF m.cache # Nil THEN [m1 EXCEPT !.cache = Cache_Delete(@, tokenHash).c] ELSE m1,
              err |-> NoErr,
              io |-> IF m.cache # Nil THEN ioD \o <<IO("cache.Delete", tokenHash)>> ELSE ioD]

Destroy(m, token) ==
    LET tokenHash == HashToken(token)
        d == DeleteSessionByHash(m.storage, tokenHash)
        m1 == [m EXCEPT !.storage = d.st]
        ioD == <<IO("storage.DeleteSessionByHash", tokenHash)>>
    IN  IF token = EmptyToken THEN [m |-> m, err |-> ErrInvalidToken, io |-> <<>>]
        ELSE IF d.err # NoErr THEN [m |-> m, err |-> d.err, io |-> ioD]
        ELSE [m |-> IF m.cache # Nil THEN [m1 EXCEPT !.cache = Cache_Delete(@, tokenHash).c] ELSE m1,
              err |-> NoErr,
              io |-> IF m.cache # Nil THEN ioD \o <<IO("cache.Delete", tokenHash)>> ELSE ioD]

\* mutant: DestroyBySessionID that does not invalidate the cache
DestroyBySessionID_KeepsCache(m, sessionID) ==
    LET d == DeleteSessionByID(m.storage, sessionID)
    IN  IF sessionID = EmptyID THEN [m |-> m, err |-> ErrSessionNotFound, io |-> <<>>]
        ELSE [m |-> [m EXCEPT !.storage = d.st], err |-> d.err,
              io |-> <<IO("storage.DeleteSessionByID", sessionID)>>]

\* mutant: DestroyBySessionID that returns when the lookup by id fails
DestroyBySessionID_StopsOnLookup(m, sessionID) ==
    LET g == GetSessionByID(m.storage, sessionID)
        found == g.err = NoErr /\ g.session # Nil
        m1 == IF m.cache # Nil /\ found
              THEN [m EXCEPT !.cache = Cache_Delete(@, g.session.TokenHash).c]
              ELSE m
        d == DeleteSessionByID(m1.storage, sessionID)
        ioG == <<IO("storage.GetSessionByID", sessionID)>>
        ioC == IF m.cache # Nil /\ found THEN <<IO("cache.Delete", g.session.TokenHash)>> ELSE <<>>
    IN  IF sessionID = EmptyID THEN [m |-> m, err |-> ErrSessionNotFound, io |-> <<>>]
        ELSE IF ~found THEN [m |-> m, err |-> g.err, io |-> ioG]
        ELSE [m |-> [m1 EXCEPT !.storage = d.st], err |-> d.err,
              io |-> ioG \o ioC \o <<IO("storage.DeleteSessionByID", sessionID)>>]

DestroyBySessionID(m, sessionID) ==
    LET g == GetSessionByID(m.storage, sessionID)
        found == g.err = NoErr /\ g.session # Nil
        m1 == IF m.cache # Nil /\ found
              THEN [m EXCEPT !.cache = Cache_Delete(@, g.session.TokenHash).c]
              ELSE m
        d == DeleteSessionByID(m1.storage, sessionID)
        ioG == IF m.cache # Nil THEN <<IO("storage.GetSessionByID", sessionID)>> ELSE <<>>
        ioC == IF m.cache # Nil /\ found THEN <<IO("cache.Delete", g.session.TokenHash)>> ELSE <<>>
    IN  IF sessionID = EmptyID THEN [m |-> m, err |-> ErrSessionNotFound, io |-> <<>>]
        ELSE [m |-> [m1 EXCEPT !.storage = d.st], err |-> d.err,
              io |-> ioG \o ioC \o <<IO("storage.DeleteSessionByID", sessionID)>>]

\* mutant: DestroyAllUserSessions that clears the cache whatever the count
DestroyAllUserSessions_AlwaysClears(m, userID) ==
    LET d == DeleteUserSessions(m.storage, userID)
        m1 == [m EXCEPT !.storage = d.st]
        ioD == <<IO("storage.DeleteUserSessions", userID)>>
    IN  IF userID = EmptyUser THEN [m |-> m, count |-> 0, err |-> ErrUserNotFound, io |-> <<>>]
        ELSE IF d.err # NoErr THEN [m |-> m, count |-> 0, err |-> d.err, io |-> ioD]
        ELSE [m |-> IF m.cache # Nil THEN [m1 EXCEPT !.cache = Cache_Clear(@).c] ELSE m1,
              count |-> d.count, err |-> NoErr,
              io |-> IF m.cache # Nil THEN ioD \o <<IO("cache.Clear", "all")>> ELSE ioD]

\* mutant: DestroyAllUserSessions that leaves the cache as it is
DestroyAllUserSessions_KeepsCache(m, userID) ==
    LET d == DeleteUserSessions(m.storage, userID)
        ioD == <<IO("storage.DeleteUserSessions", userID)>>
    IN  IF userID = EmptyUser THEN [m |-> m, count |-> 0, err |-> ErrUserNotFound, io |-> <<>>]
        ELSE IF d.err # NoErr THEN [m |-> m, count |-> 0, err |-> d.err, io |-> ioD]
        ELSE [m |-> [m EXCEPT !.storage = d.st], count |-> d.count, err |-> NoErr, io |-> ioD]

DestroyAllUserSessions(m, userID) ==
    LET d == DeleteUserSessions(m.storage, userID)
        m1 == [m EXCEPT !.storage = d.st]
        ioD == <<IO("storage.DeleteUserSessions", userID)>>
        clears == m.cache # Nil /\ d.count > 0
    IN  IF userID = EmptyUser THEN [m |-> m, count |-> 0, err |-> ErrUserNotFound, io |-> <<>>]
        ELSE IF d.err # NoErr THEN [m |-> m, count |-> 0, err |-> d.err, io |-> ioD]
        ELSE [m |-> IF clears THEN [m1 EXCEPT !.cache = Cache_Clear(@).c] ELSE m1,
              count |-> d.count, err |-> NoErr,
              io |-> IF clears THEN ioD \o <<IO("cache.Clear", "all")>> ELSE ioD]

\* a failed Refresh: no session, no token; old: the session Refresh replaces
RefreshFailed(m, err, io) ==
    [m |-> m, session |-> Nil, token |-> EmptyToken, err |-> err, io |-> io, old |-> Nil]

\* mutant: Refresh that does not destroy the old session
Refresh_KeepsOld(m, token, now, n, rnd, victim, victim2) ==
    LET v == Verify(m, token, now, victim)
        c == Create(v.m, v.session.UserID, v.session.IPAddress, v.session.UserAgent, now, n, rnd, victim2)
    IN  IF token = EmptyToken THEN RefreshFailed(m, ErrInvalidToken, <<>>)
        ELSE IF v.err # NoErr THEN RefreshFailed(v.m, v.err, v.io)
        ELSE IF c.err # NoErr THEN RefreshFailed(c.m, c.err, v.io \o c.io)
        ELSE [m |-> c.m, session |-> c.session, token |-> c.token, err |-> NoErr, io |-> v.io \o c.io,
              old |-> v.session]

\* mutant: Refresh that creates the new session before it destroys the old one
Refresh_CreatesFirst(m, token, now, n, rnd, victim, victim2) ==
    LET v == Verify(m, token, now, victim)
        c == Create(v.m, v.session.UserID, v.session.IPAddress, v.session.UserAgent, now, n, rnd, victim2)
        d == Destroy(c.m, token)
    IN  IF token = EmptyToken THEN RefreshFailed(m, ErrInvalidToken, <<>>)
        ELSE IF v.err # NoErr THEN RefreshFailed(v.m, v.err, v.io)
        ELSE IF c.err # NoErr THEN RefreshFailed(c.m, c.err, v.io \o c.io)
        ELSE IF d.err # NoErr THEN RefreshFailed(d.m, d.err, v.io \o c.io \o d.io)
        ELSE [m |-> d.m, session |-> c.session, token |-> c.token, err |-> NoErr,
              io |-> v.io \o c.io \o d.io, old |-> v.session]

\* Refresh from the return of its Verify call on: v is what Verify returned
RefreshVerified(m, token, now, n, rnd, victim2, v) ==
    LET d == Destroy(v.m, token)
        c == Create(d.m, v.session.UserID, v.session.IPAddress, v.session.UserAgent, now, n, rnd, victim2)
    IN  IF token = EmptyToken THEN RefreshFailed(m, ErrInvalidToken, <<>>)
        ELSE IF v.err # NoErr THEN RefreshFailed(v.m, v.err, v.io)
        ELSE IF d.err # NoErr THEN RefreshFailed(d.m, d.err, v.io \o d.io)
        ELSE IF c.err # NoErr THEN RefreshFailed(c.m, c.err, v.io \o d.io \o c.io)
        ELSE [m |-> c.m, session |-> c.session, token |-> c.token, err |-> NoErr,
              io |-> v.io \o d.io \o c.io, old |-> v.session]

Refresh(m, token, now, n, rnd, victim, victim2) ==
    RefreshVerified(m, token, now, n, rnd, victim2, Verify(m, token, now, victim))

\* ------------------------------------------------------------------ state
VARIABLES
    sm,       \* the SessionManager under test, with its Storage and Cache
    ref,      \* a SessionManager built with cache = nil, given the same calls
    now,      \* time.Now()
    nextTok,  \* index of the next draw of the random source
    last,     \* the last call: operation, arguments, results of sm and of ref, trace of sm
    cacheDelFailed, \* a Delete or Clear of the FakeCache has been made to fail
    procs,    \* SpecConc, SpecCache: the call each goroutine is in, and where
    destroyed, \* SpecConc: tokens for which a Destroy has returned nil
    imc,      \* SpecCache: an InMemoryCache used on its own, and its counters
    pw,       \* SpecPassword: the encoded password hash that is stored
    nano,     \* SpecNanoID: a NanoIDGenerator and the Generate call in progress
    reg       \* SpecRegistry: an EndpointRegistry

\* the components that the session specifications leave alone
units == <<imc, pw, nano, reg>>
\* the SessionManager state that the component specifications leave alone
managers == <<sm, ref, cacheDelFailed, destroyed>>

vars == <<sm, ref, now, nextTok, last, cacheDelFailed, procs, destroyed, imc, pw, nano, reg>>

Digests == {HashToken(t) : t \in Tokens}
Issued == 1..(nextTok - 1)
TokenArgs == Issued \cup {EmptyToken, BogusToken}
IDArgs == {NanoID(n) : n \in Issued} \cup {EmptyID, NanoID(BogusToken)}
UserArgs == Users \cup {EmptyUser}
RandFaults == {"token", "id"}
\* the error fields of the fake storage that a call is run with; getErr
\* stays unset (Storage answers every read)
StorageFaults == {"createErr", "deleteErr"}
CacheFaults == {"getErr", "setErr", "delErr", "clearErr"}

\* the one failure injected into a call: none, an error field of the fake
\* storage (kind "storage") or of the FakeCache (kind "cache"), among the
\* fields the call can read, or a failure of the random source (kind "rand")
FaultChoices(storageFields, cacheFields, randFields) ==
    {<<"none", "none">>}
    \cup {<<"storage", f>> : f \in storageFields}
    \cup {<<"rand", f>> : f \in randFields}
    \cup (IF sm.cache # Nil /\ sm.cache.kind = "FakeCache" THEN {<<"cache", f>> : f \in cacheFields} ELSE {})

\* the key Go's map iteration can yield first when Set evicts
VictimChoices ==
    IF sm.cache # Nil /\ sm.cache.kind = "InMemoryCache" /\ Cardinality(DOMAIN sm.cache.cache) >= sm.cache.maxSize
       /\ DOMAIN sm.cache.cache # {}
    THEN DOMAIN sm.cache.cache
    ELSE {HashToken(EmptyToken)}

Rnd(fault) == IF fault[1] = "rand" THEN fault[2] ELSE "ok"

WithFault(m, fault) ==
    IF fault[1] = "storage" THEN [m EXCEPT !.storage[fault[2]] = TRUE]
    ELSE IF fault[1] = "cache" /\ m.cache # Nil THEN [m EXCEPT !.cache[fault[2]] = TRUE]
    ELSE m

WithoutFault(m, fault) ==
    IF fault[1] = "storage" THEN [m EXCEPT !.storage[fault[2]] = FALSE]
    ELSE IF fault[1] = "cache" /\ m.cache # Nil THEN [m EXCEPT !.cache[fault[2]] = FALSE]
    ELSE m

\* what a call returns to its caller
Out(r, fields) ==
    [session |-> IF "session" \in fields THEN r.session ELSE Nil,
     token |-> IF "token" \in fields THEN r.token ELSE EmptyToken,
     count |-> IF "count" \in fields THEN r.count ELSE 0,
     err |-> r.err]

Call(op, token, id, user, fault, a, b) ==
    [op |-> op, token |-> token, id |-> id, user |-> user, fault |-> fault, res |-> a, ref |-> b,
     path |-> "none", io |-> <<>>, old |-> Nil]

Procs == 1..NumProcs
IdleProc == [pc |-> "idle", op |-> "none", token |-> EmptyToken, session |-> Nil, err |-> NoErr, after |-> FALSE]

NoCall(op) ==
    Call(op, EmptyToken, EmptyID, EmptyUser, <<"none", "none">>, Out([err |-> NoErr], {}), Out([err |-> NoErr], {}))

Init ==
    /\ \E kind \in CacheKinds, maxAge \in MaxAges :
         /\ sm = NewSessionManager(maxAge, NewFakeSessionStorage, NewCache(kind))
         /\ ref = NewSessionManager(maxAge, NewFakeSessionStorage, Nil)
    /\ now = 0
    /\ nextTok = 1
    /\ last = NoCall("New")
    /\ cacheDelFailed = FALSE
    /\ procs = [p \in Procs |-> IdleProc]
    /\ destroyed = {}
    /\ imc = Nil
    /\ pw = Nil
    /\ nano = Nil
    /\ reg = Nil

DoCreate ==
    \E caller \in Callers, victim \in VictimChoices, fault \in FaultChoices({"createErr"}, {"setErr"}, RandFaults) :
      LET userID == caller[1] IN
      \E a \in {Create(WithFault(sm, fault), userID, caller[2], caller[3], now, nextTok, Rnd(fault), victim)},
         b \in {Create(WithFault(ref, fault), userID, caller[2], caller[3], now, nextTok, Rnd(fault), victim)} :
          /\ nextTok <= MaxTokens
          /\ sm' = WithoutFault(a.m, fault)
          /\ ref' = WithoutFault(b.m, fault)
          /\ nextTok' = IF Rnd(fault) = "ok" THEN nextTok + 1 ELSE nextTok
          /\ last' = [Call("Create", EmptyToken, EmptyID, userID, fault,
                           Out(a, {"session", "token"}), Out(b, {"session", "token"}))
                        EXCEPT !.io = a.io]
          /\ cacheDelFailed' = (cacheDelFailed \/ fault \in {<<"cache", "delErr">>, <<"cache", "clearErr">>})
          /\ UNCHANGED <<now, procs, destroyed, units>>

DoVerify ==
    \E token \in TokenArgs, victim \in VictimChoices, fault \in FaultChoices({}, {"getErr", "setErr", "delErr"}, {}) :
      \E a \in {Verify(WithFault(sm, fault), token, now, victim)},
         b \in {Verify(WithFault(ref, fault), token, now, victim)} :
          /\ sm' = WithoutFault(a.m, fault)
          /\ ref' = WithoutFault(b.m, fault)
          /\ last' = [Call("Verify", token, EmptyID, EmptyUser, fault, Out(a, {"session"}), Out(b, {"session"}))
                        EXCEPT !.path = a.path, !.io = a.io]
          /\ cacheDelFailed' = (cacheDelFailed \/ fault \in {<<"cache", "delErr">>, <<"cache", "clearErr">>})
          /\ UNCHANGED <<now, nextTok, procs, destroyed, units>>

DoDestroy ==
    \E token \in TokenArgs, fault \in FaultChoices({"deleteErr"}, {"delErr"}, {}) :
      \E a \in {Destroy(WithFault(sm, fault), token)},
         b \in {Destroy(WithFault(ref, fault), token)} :
          /\ sm' = WithoutFault(a.m, fault)
          /\ ref' = WithoutFault(b.m, fault)
          /\ last' = [Call("Destroy", token, EmptyID, EmptyUser, fault, Out(a, {}), Out(b, {}))
                        EXCEPT !.io = a.io]
          /\ cacheDelFailed' = (cacheDelFailed \/ fault \in {<<"cache", "delErr">>, <<"cache", "clearErr">>})
          /\ UNCHANGED <<now, nextTok, procs, destroyed, units>>

DoDestroyBySessionID ==
    \E sessionID \in IDArgs, fault \in FaultChoices({"deleteErr"}, {"delErr"}, {}) :
      \E a \in {DestroyBySessionID(WithFault(sm, fault), sessionID)},
         b \in {DestroyBySessionID(WithFault(ref, fault), sessionID)} :
          /\ sm' = WithoutFault(a.m, fault)
          /\ ref' = WithoutFault(b.m, fault)
          /\ last' = [Call("DestroyBySessionID", EmptyToken, sessionID, EmptyUser, fault, Out(a, {}), Out(b, {}))
                        EXCEPT !.io = a.io]
          /\ cacheDelFailed' = (cacheDelFailed \/ fault \in {<<"cache", "delErr">>, <<"cache", "clearErr">>})
          /\ UNCHANGED <<now, nextTok, procs, destroyed, units>>

DoDestroyAllUserSessions ==
    \E userID \in UserArgs, fault \in FaultChoices({}, {"clearErr"}, {}) :
      \E a \in {DestroyAllUserSessions(WithFault(sm, fault), userID)},
         b \in {DestroyAllUserSessions(WithFault(ref, fault), userID)} :
          /\ sm' = WithoutFault(a.m, fault)
          /\ ref' = WithoutFault(b.m, fault)
          /\ last' = [Call("DestroyAllUserSessions", EmptyToken, EmptyID, userID, fault,
                           Out(a, {"count"}), Out(b, {"count"}))
                        EXCEPT !.io = a.io]
          /\ cacheDelFailed' = (cacheDelFailed \/ fault \in {<<"cache", "delErr">>, <<"cache", "clearErr">>})
          /\ UNCHANGED <<now, nextTok, procs, destroyed, units>>

DoRefresh ==
    \E token \in TokenArgs, victim \in VictimChoices, victim2 \in VictimChoices,
       fault \in FaultChoices(StorageFaults, {"getErr", "setErr", "delErr"}, RandFaults) :
      \E a \in {Refresh(WithFault(sm, fault), token, now, nextTok, Rnd(fault), victim, victim2)},
         b \in {Refresh(WithFault(ref, fault), token, now, nextTok, Rnd(fault), victim, victim2)} :
          /\ nextTok <= MaxTokens
          /\ sm' = WithoutFault(a.m, fault)
          /\ ref' = WithoutFault(b.m, fault)
          /\ nextTok' = IF a.err = NoErr \/ b.err = NoErr THEN nextTok + 1 ELSE nextTok
          /\ last' = [Call("Refresh", token, EmptyID, EmptyUser, fault,
                           Out(a, {"session", "token"}), Out(b, {"session", "token"}))
                        EXCEPT !.io = a.io, !.old = a.old]
          /\ cacheDelFailed' = (cacheDelFailed \/ fault \in {<<"cache", "delErr">>, <<"cache", "clearErr">>})
          /\ UNCHANGED <<now, procs, destroyed, units>>

\* the clock advances between calls
Tick ==
    /\ now < MaxTime
    /\ now' = now + 1
    /\ last' = NoCall("Tick")
    /\ UNCHANGED <<sm, ref, nextTok, cacheDelFailed, procs, destroyed, units>>

Next ==
    \/ DoCreate
    \/ DoVerify
    \/ DoDestroy
    \/ DoDestroyBySessionID
    \/ DoDestroyAllUserSessions
    \/ DoRefresh
    \/ Tick

Spec == Init /\ [][Next]_vars

\* ------------------------------------------------- SignUp
\* FakeStorageProvider: the FakeSessionStorage and the maps users, accounts
NewFakeStorageProvider ==
    [sessions |-> EmptyMap, createErr |-> FALSE, getErr |-> FALSE, deleteErr |-> FALSE,
     users |-> EmptyMap, accounts |-> EmptyMap]

CreateUser(st, u) ==
    IF Has(st.users, u.ID) THEN [st |-> st, err |-> ErrUserExists]
    ELSE [st |-> [st EXCEPT !.users = MapPut(@, u.ID, u)], err |-> NoErr]

GetUserByEmail(st, email) ==
    LET hit == {id \in DOMAIN st.users : st.users[id].Email = email}
    IN  IF hit = {} THEN [user |-> Nil, err |-> ErrUserNotFound]
        ELSE [user |-> st.users[CHOOSE id \in hit : TRUE], err |-> NoErr]

DeleteUser(st, id) ==
    IF ~Has(st.users, id) THEN [st |-> st, err |-> ErrUserNotFound]
    ELSE [st |-> [st EXCEPT !.users = MapDel(@, id)], err |-> NoErr]

\* written: FALSE for a StorageProvider whose write fails (the fake's never does)
CreateAccount(st, a, written) ==
    IF ~written THEN [st |-> st, err |-> AccountWriteErr]
    ELSE [st |-> [st EXCEPT !.accounts = MapPut(@, a.ID, a)], err |-> NoErr]

DeleteAccount(st, id) ==
    IF ~Has(st.accounts, id) THEN [st |-> st, err |-> "account not found"]
    ELSE [st |-> [st EXCEPT !.accounts = MapDel(@, id)], err |-> NoErr]

\* passwords.Hash: a one-way image of the password
HashPassword(password) == <<"argon2id", password>>

UserIDs == {"user-1", "user-2"}
AccountIDs == {"account-1", "account-2"}
Emails == {"", "alice@example.com", "bob@example.com"}
SignUpPasswords == {"", "SecurePass123!"}

\* the one failure of a SignUp call: none, the password hashing, the
\* generation of the user id or of the account id, the write of the account,
\* or a failure inside the session's Create (FaultChoices)
SignUpFaults ==
    {<<"password", "hash">>, <<"nanoid", "user">>, <<"nanoid", "account">>, <<"account", "write">>}

SignUpFailed(m, err) == [m |-> m, user |-> Nil, session |-> Nil, token |-> EmptyToken, err |-> err]

\* SignUp from the account's write on: m holds the user, c is what sm.Create
\* returned on the manager that also holds the account
SignUpAccount(m, user, accountID, w, c) ==
    IF w.err # NoErr
    THEN SignUpFailed([m EXCEPT !.storage = DeleteUser(@, user.ID).st], w.err)
    ELSE IF c.err # NoErr
    THEN SignUpFailed([c.m EXCEPT !.storage = DeleteAccount(DeleteUser(@, user.ID).st, accountID).st], c.err)
    ELSE [m |-> c.m, user |-> user, session |-> c.session, token |-> c.token, err |-> NoErr]

\* userID, accountID: what the two calls of nanoid.Generate yield when they
\* succeed; m is the manager with the fault of the call set; at: time.Now()
SignUp(m, input, ip, userAgent, userID, accountID, fault, at, n, victim) ==
    LET user == [ID |-> userID, Email |-> input.Email]
        account == [ID |-> accountID, UserID |-> userID, ProviderID |-> "credential",
                    AccountID |-> input.Email, Password |-> HashPassword(input.Password)]
        u == CreateUser(m.storage, user)
        m1 == [m EXCEPT !.storage = u.st]
        w == CreateAccount(m1.storage, account, fault # <<"account", "write">>)
    IN  IF input.Email = "" THEN SignUpFailed(m, ErrEmailRequired)
        ELSE IF input.Password = "" THEN SignUpFailed(m, ErrPasswordRequired)
        ELSE IF GetUserByEmail(m.storage, input.Email).err = NoErr THEN SignUpFailed(m, ErrUserExists)
        ELSE IF fault = <<"password", "hash">> THEN SignUpFailed(m, RandErr)
        ELSE IF fault = <<"nanoid", "user">> THEN SignUpFailed(m, RandErr)
        ELSE IF u.err # NoErr THEN SignUpFailed(m, u.err)
        ELSE IF fault = <<"nanoid", "account">> THEN SignUpFailed(m1, RandErr)
        ELSE SignUpAccount(m1, user, accountID, w,
                           Create([m1 EXCEPT !.storage = w.st], userID, ip, userAgent, at, n, Rnd(fault), victim))

InitSignUp ==
    /\ \E kind \in CacheKinds, maxAge \in MaxAges :
         sm = NewSessionManager(maxAge, NewFakeStorageProvider, NewCache(kind))
    /\ ref = Nil
    /\ now = 0
    /\ nextTok = 1
    /\ last = NoCall("New")
    /\ cacheDelFailed = FALSE
    /\ procs = [p \in Procs |-> IdleProc]
    /\ destroyed = {}
    /\ imc = Nil
    /\ pw = Nil
    /\ nano = Nil
    /\ reg = Nil

DoSignUp ==
    \E email \in Emails, password \in SignUpPasswords, victim \in VictimChoices,
       fault \in FaultChoices({"createErr"}, {"setErr"}, RandFaults) \cup SignUpFaults,
       userID \in UserIDs \ DOMAIN sm.storage.users, accountID \in AccountIDs \ DOMAIN sm.storage.accounts :
      /\ nextTok <= MaxTokens
      /\ \E a \in {SignUp(WithFault(sm, fault), [Email |-> email, Password |-> password], "ip1", "ua1",
                          userID, accountID, fault, now, nextTok, victim)} :
           /\ sm' = WithoutFault(a.m, fault)
           /\ nextTok' = IF a.err = NoErr \/ (a.err = InjectedCreateErr) THEN nextTok + 1 ELSE nextTok
           /\ last' = Call("SignUp", EmptyToken, EmptyID, userID, fault,
                           Out(a, {"session", "token"}), Out([err |-> NoErr], {}))
      /\ UNCHANGED <<ref, now, cacheDelFailed, procs, destroyed, units>>

NextSignUp ==
    \/ DoSignUp
    \/ Tick

SpecSignUp == InitSignUp /\ [][NextSignUp]_vars

\* ------------------------------------------------- a shared cache
\* The cache is handed to NewSessionManager by the caller, who keeps it: a
\* core.Cache takes any *core.Session in Set, nil included.
DoCacheSetNil ==
    \E tokenHash \in Digests, victim \in VictimChoices :
      /\ sm.cache # Nil
      /\ \E a \in {Cache_Set(sm.cache, tokenHash, Nil, now, victim)} :
           /\ sm' = [sm EXCEPT !.cache = a.c]
           /\ last' = [NoCall("cache.Set") EXCEPT !.res = Out(a, {}), !.io = <<IO("cache.Set", tokenHash)>>]
      /\ UNCHANGED <<ref, now, nextTok, cacheDelFailed, procs, destroyed, units>>

NextShared ==
    \/ DoCreate
    \/ DoVerify
    \/ DoCacheSetNil
    \/ Tick

SpecShared == Init /\ [][NextShared]_vars

\* ------------------------------------------------- concurrent calls
\* One step per critical section of the cache or round trip to Storage.
\* A goroutine is idle, inside a call, or done with the call's result.
Free(p) == procs[p].pc \in {"idle", "done"}
ConcTokenArgs == Issued \cup {EmptyToken}

\* the return of Verify, Destroy or Create to its caller: the goroutine is
\* done, unless the caller is Refresh and the call succeeded: after Verify
\* Refresh goes on to Destroy (keeping the verified session), after Destroy
\* to Create.  op names the call of Refresh the goroutine is in.
Return(p, session, err) ==
    IF procs[p].op = "Refresh.Verify" /\ err = NoErr
    THEN [procs[p] EXCEPT !.op = "Refresh.Destroy", !.pc = "dStorage", !.session = session]
    ELSE IF procs[p].op = "Refresh.Destroy" /\ err = NoErr
    THEN [procs[p] EXCEPT !.op = "Refresh.Create", !.pc = "rCreate"]
    ELSE [procs[p] EXCEPT !.pc = "done", !.session = session, !.err = err]

\* Create is called by one goroutine; no other call can name its token
\* before it has returned
CCreate ==
    \E caller \in Callers, victim \in VictimChoices :
      /\ nextTok <= MaxTokens
      /\ sm' = Create(sm, caller[1], caller[2], caller[3], now, nextTok, "ok", victim).m
      /\ nextTok' = nextTok + 1
      /\ UNCHANGED <<ref, now, last, cacheDelFailed, procs, destroyed, units>>

\* Verify: entry, token == "" check
StartVerify(p) ==
    \E token \in ConcTokenArgs :
      /\ Free(p)
      /\ procs' = [procs EXCEPT ![p] =
            [pc |-> IF token = EmptyToken THEN "done" ELSE IF sm.cache # Nil THEN "vGet" ELSE "vStorage",
             op |-> "Verify", token |-> token, session |-> Nil,
             err |-> IF token = EmptyToken THEN ErrInvalidToken ELSE NoErr,
             after |-> token \in destroyed]]
      /\ UNCHANGED <<sm, ref, now, nextTok, last, cacheDelFailed, destroyed, units>>

\* Verify: sm.cache.Get under the read lock, then the expiry check of a hit
VGet(p) ==
    LET tokenHash == HashToken(procs[p].token)
        inMem == sm.cache.kind = "InMemoryCache"
        seen == InMemoryCache_Read(sm.cache, tokenHash, now)
        g == IF inMem
             THEN [session |-> IF seen = "hit" THEN sm.cache.cache[tokenHash].session ELSE Nil,
                   err |-> IF seen = "hit" THEN NoErr ELSE ErrCacheNotFound]
             ELSE Cache_Get(sm.cache, tokenHash, now)
    IN  /\ procs[p].pc = "vGet"
        /\ procs' = [procs EXCEPT ![p] =
              IF inMem /\ seen = "expired" THEN [@ EXCEPT !.pc = "vGetDelete"]
              ELSE IF g.err # NoErr THEN [@ EXCEPT !.pc = "vStorage"]
              ELSE IF now > g.session.ExpiresAt THEN [@ EXCEPT !.pc = "vCacheDelete"]
              ELSE Return(p, g.session, NoErr)]
        /\ UNCHANGED <<sm, ref, now, nextTok, last, cacheDelFailed, destroyed, units>>

\* InMemoryCache.Get: read lock released, c.Delete(tokenHash), miss
VGetDelete(p) ==
    /\ procs[p].pc = "vGetDelete"
    /\ sm' = [sm EXCEPT !.cache = InMemoryCache_Delete(@, HashToken(procs[p].token)).c]
    /\ procs' = [procs EXCEPT ![p].pc = "vStorage"]
    /\ UNCHANGED <<ref, now, nextTok, last, cacheDelFailed, destroyed, units>>

\* Verify: an expired cached session is removed from the cache
VCacheDelete(p) ==
    /\ procs[p].pc = "vCacheDelete"
    /\ sm' = [sm EXCEPT !.cache = Cache_Delete(@, HashToken(procs[p].token)).c]
    /\ procs' = [procs EXCEPT ![p] = Return(p, Nil, ErrSessionExpired)]
    /\ UNCHANGED <<ref, now, nextTok, last, cacheDelFailed, destroyed, units>>

\* Verify: sm.storage.GetSessionByHash and the expiry check
VStorage(p) ==
    LET r == GetSessionByHash(sm.storage, HashToken(procs[p].token))
    IN  /\ procs[p].pc = "vStorage"
        /\ procs' = [procs EXCEPT ![p] =
              IF r.err # NoErr THEN Return(p, Nil, r.err)
              ELSE IF r.session = Nil THEN Return(p, Nil, ErrSessionNotFound)
              ELSE IF now > r.session.ExpiresAt THEN Return(p, Nil, ErrSessionExpired)
              ELSE IF sm.cache # Nil THEN [@ EXCEPT !.pc = "vSet", !.session = r.session]
              ELSE Return(p, r.session, NoErr)]
        /\ UNCHANGED <<sm, ref, now, nextTok, last, cacheDelFailed, destroyed, units>>

\* Verify: sm.cache.Set of the session read from Storage
VSet(p) ==
    \E victim \in VictimChoices :
      /\ procs[p].pc = "vSet"
      /\ sm' = [sm EXCEPT !.cache = Cache_Set(@, HashToken(procs[p].token), procs[p].session, now, victim).c]
      /\ procs' = [procs EXCEPT ![p] = Return(p, procs[p].session, NoErr)]
      /\ UNCHANGED <<ref, now, nextTok, last, cacheDelFailed, destroyed, units>>

\* Destroy: entry, token == "" check
StartDestroy(p) ==
    \E token \in ConcTokenArgs :
      /\ Free(p)
      /\ procs' = [procs EXCEPT ![p] =
            [pc |-> IF token = EmptyToken THEN "done" ELSE "dStorage",
             op |-> "Destroy", token |-> token, session |-> Nil,
             err |-> IF token = EmptyToken THEN ErrInvalidToken ELSE NoErr,
             after |-> token \in destroyed]]
      /\ UNCHANGED <<sm, ref, now, nextTok, last, cacheDelFailed, destroyed, units>>

\* Destroy: sm.storage.DeleteSessionByHash
DStorage(p) ==
    LET d == DeleteSessionByHash(sm.storage, HashToken(procs[p].token))
    IN  /\ procs[p].pc = "dStorage"
        /\ sm' = [sm EXCEPT !.storage = d.st]
        /\ procs' = [procs EXCEPT ![p] =
              IF d.err # NoErr THEN Return(p, Nil, d.err)
              ELSE IF sm.cache # Nil THEN [@ EXCEPT !.pc = "dCache"]
              ELSE Return(p, Nil, NoErr)]
        /\ destroyed' = IF d.err = NoErr /\ sm.cache = Nil THEN destroyed \cup {procs[p].token} ELSE destroyed
        /\ UNCHANGED <<ref, now, nextTok, last, cacheDelFailed, units>>

\* Destroy: sm.cache.Delete, return nil
DCache(p) ==
    /\ procs[p].pc = "dCache"
    /\ sm' = [sm EXCEPT !.cache = Cache_Delete(@, HashToken(procs[p].token)).c]
    /\ procs' = [procs EXCEPT ![p] = Return(p, Nil, NoErr)]
    /\ destroyed' = destroyed \cup {procs[p].token}
    /\ UNCHANGED <<ref, now, nextTok, last, cacheDelFailed, units>>

NextConc ==
    \/ CCreate
    \/ Tick
    \/ \E p \in Procs : StartVerify(p)
    \/ \E p \in Procs : VGet(p)
    \/ \E p \in Procs : VGetDelete(p)
    \/ \E p \in Procs : VCacheDelete(p)
    \/ \E p \in Procs : VStorage(p)
    \/ \E p \in Procs : VSet(p)
    \/ \E p \in Procs : StartDestroy(p)
    \/ \E p \in Procs : DStorage(p)
    \/ \E p \in Procs : DCache(p)

SpecConc == Init /\ [][NextConc]_vars

\* Refresh: entry, token == "" check, then Verify
StartRefresh(p) ==
    \E token \in ConcTokenArgs :
      /\ Free(p)
      /\ procs' = [procs EXCEPT ![p] =
            [pc |-> IF token = EmptyToken THEN "done" ELSE IF sm.cache # Nil THEN "vGet" ELSE "vStorage",
             op |-> "Refresh.Verify", token |-> token, session |-> Nil,
             err |-> IF token = EmptyToken THEN ErrInvalidToken ELSE NoErr,
             after |-> token \in destroyed]]
      /\ UNCHANGED <<sm, ref, now, nextTok, last, cacheDelFailed, destroyed, units>>

\* Refresh: sm.Create for the user of the verified session, and the return of
\* the new session
RCreate(p) ==
    \E victim \in VictimChoices :
      /\ procs[p].pc = "rCreate"
      /\ nextTok <= MaxTokens + 1
      /\ \E c \in {Create(sm, procs[p].session.UserID, procs[p].session.IPAddress,
                          procs[p].session.UserAgent, now, nextTok, "ok", victim)} :
           /\ sm' = c.m
           /\ procs' = [procs EXCEPT ![p] = [@ EXCEPT !.pc = "done", !.op = "Refresh", !.session = c.session,
                                                       !.err = c.err]]
      /\ nextTok' = nextTok + 1
      /\ UNCHANGED <<ref, now, last, cacheDelFailed, destroyed, units>>

\* concurrent Refresh calls only, over sessions created beforehand or meanwhile
NextRefresh ==
    \/ CCreate
    \/ Tick
    \/ \E p \in Procs : StartRefresh(p)
    \/ \E p \in Procs : VGet(p)
    \/ \E p \in Procs : VGetDelete(p)
    \/ \E p \in Procs : VCacheDelete(p)
    \/ \E p \in Procs : VStorage(p)
    \/ \E p \in Procs : VSet(p)
    \/ \E p \in Procs : DStorage(p)
    \/ \E p \in Procs : DCache(p)
    \/ \E p \in Procs : RCreate(p)

SpecRefresh == Init /\ [][NextRefresh]_vars

\* concurrent Destroy calls only, over sessions created beforehand or meanwhile
NextDestroy ==
    \/ CCreate
    \/ \E p \in Procs : StartDestroy(p)
    \/ \E p \in Procs : DStorage(p)
    \/ \E p \in Procs : DCache(p)

SpecDestroy == Init /\ [][NextDestroy]_vars

\* ------------------------------------------------- InMemoryCache on its own
\* Goroutines call Get, Set, Delete and Clear of one InMemoryCache.  Set,
\* Delete and Clear run under the write lock; a Get that finds an expired
\* entry gives up the read lock before it calls Delete.
MaxCounts == 4
CacheConfigs == {[TTL |-> 1, MaxSize |-> 1], [TTL |-> 1, MaxSize |-> 2], [TTL |-> 0, MaxSize |-> 0]}
CacheKeys == {HashToken(t) : t \in 1..BogusToken}
CachedSession(tokenHash) == [ID |-> NanoID(tokenHash[2]), TokenHash |-> tokenHash]
InMemoryCache_Len(c) == Cardinality(DOMAIN c.cache)
CountTotal(stats) == stats.hits + stats.misses + stats.sets + stats.deletes + stats.evictions
Counted(c, stats, count) == [c |-> c, stats |-> AddCount(stats, count)]
CacheCall(op, p, tokenHash, session, err, count) ==
    [op |-> op, proc |-> p, key |-> tokenHash, session |-> session, err |-> err, count |-> count]

InitCache ==
    /\ \E c \in CacheConfigs : imc = [c |-> NewInMemoryCache(c), stats |-> NoCount]
    /\ now = 0
    /\ nextTok = 1
    /\ last = CacheCall("New", 0, HashToken(EmptyToken), Nil, NoErr, NoCount)
    /\ procs = [p \in Procs |-> IdleProc]
    /\ sm = Nil /\ ref = Nil /\ cacheDelFailed = FALSE /\ destroyed = {}
    /\ pw = Nil /\ nano = Nil /\ reg = Nil

\* Get, up to its return or to the release of the read lock
CGet(p) ==
    \E tokenHash \in CacheKeys :
      LET r == InMemoryCache_Get(imc.c, tokenHash, now)
      IN  /\ Free(p)
          /\ CountTotal(imc.stats) < MaxCounts
          /\ IF InMemoryCache_Read(imc.c, tokenHash, now) = "expired"
             THEN /\ imc' = Counted(imc.c, imc.stats, Count("misses"))
                  /\ procs' = [procs EXCEPT ![p] = [pc |-> "Get.Delete", tokenHash |-> tokenHash]]
                  /\ last' = CacheCall("Get.Read", p, tokenHash, Nil, NoErr, Count("misses"))
             ELSE /\ imc' = Counted(r.c, imc.stats, r.count)
                  /\ last' = CacheCall("Get", p, tokenHash, r.session, r.err, r.count)
                  /\ UNCHANGED procs
          /\ UNCHANGED <<now, nextTok, managers, pw, nano, reg>>

\* Get of an expired entry: c.Delete(tokenHash), and the return
CGetDelete(p) ==
    LET tokenHash == procs[p].tokenHash
        d == InMemoryCache_Delete(imc.c, tokenHash)
    IN  /\ procs[p].pc = "Get.Delete"
        /\ imc' = Counted(d.c, imc.stats, d.count)
        /\ procs' = [procs EXCEPT ![p] = IdleProc]
        /\ last' = CacheCall("Get", p, tokenHash, Nil, IF d.err # NoErr THEN d.err ELSE ErrCacheNotFound,
                             AddCount(Count("misses"), d.count))
        /\ UNCHANGED <<now, nextTok, managers, pw, nano, reg>>

CSet(p) ==
    \E tokenHash \in CacheKeys, victim \in (DOMAIN imc.c.cache) \cup {HashToken(EmptyToken)} :
      LET r == InMemoryCache_Set(imc.c, tokenHash, CachedSession(tokenHash), now, victim)
      IN  /\ Free(p)
          /\ CountTotal(imc.stats) < MaxCounts
          /\ victim \in DOMAIN imc.c.cache \/ DOMAIN imc.c.cache = {}
          /\ imc' = Counted(r.c, imc.stats, r.count)
          /\ last' = CacheCall("Set", p, tokenHash, Nil, r.err, r.count)
          /\ UNCHANGED <<now, nextTok, procs, managers, pw, nano, reg>>

CDelete(p) ==
    \E tokenHash \in CacheKeys :
      LET r == InMemoryCache_Delete(imc.c, tokenHash)
      IN  /\ Free(p)
          /\ CountTotal(imc.stats) < MaxCounts
          /\ imc' = Counted(r.c, imc.stats, r.count)
          /\ last' = CacheCall("Delete", p, tokenHash, Nil, r.err, r.count)
          /\ UNCHANGED <<now, nextTok, procs, managers, pw, nano, reg>>

CClear(p) ==
    LET r == InMemoryCache_Clear(imc.c)
    IN  /\ Free(p)
        /\ imc' = Counted(r.c, imc.stats, r.count)
        /\ last' = CacheCall("Clear", p, HashToken(EmptyToken), Nil, r.err, r.count)
        /\ UNCHANGED <<now, nextTok, procs, managers, pw, nano, reg>>

NextCache ==
    \/ \E p \in Procs : CGet(p)
    \/ \E p \in Procs : CGetDelete(p)
    \/ \E p \in Procs : CSet(p)
    \/ \E p \in Procs : CDelete(p)
    \/ \E p \in Procs : CClear(p)
    \/ Tick

SpecCache == InitCache /\ [][NextCache]_vars

\* ------------------------------------------------- the lock of the InMemoryCache
\* mu, a sync.RWMutex: the goroutines that hold it for reading, the one that
\* holds it for writing (0: none) and those blocked in Lock.  A pending Lock
\* keeps new readers out; fatal: an unlock of a lock the caller does not hold.
NewRWMutex == [readers |-> {}, writer |-> 0, waiting |-> {}, fatal |-> FALSE]

CanRLock(mu) == mu.writer = 0 /\ mu.waiting = {}
CanAcquire(mu, p) == p \in mu.waiting /\ mu.writer = 0 /\ mu.readers = {}

\* the key and the session of the calls on the lock
LockKey == HashToken(1)

\* what the methods do, one instruction per lock operation or body; Lock is
\* the call of mu.Lock, Acquire its return
SetProgram == <<"Lock", "Acquire", "Set.body", "Unlock">>
DeleteProgram == <<"Lock", "Acquire", "Delete.body", "Unlock">>
ClearProgram == <<"Lock", "Acquire", "Clear.body", "Unlock">>
LenProgram == <<"RLock", "Len.body", "RUnlock">>
StatsProgram == <<"Stats.load">> \o LenProgram

\* mutant: Get that calls Delete with the read lock still held
GetRest_KeepsReadLock(seen) ==
    IF seen = "expired" THEN DeleteProgram \o <<"RUnlock">>
    ELSE <<"RUnlock">>

\* Get after its read under the read lock: for an expired entry RUnlock,
\* c.Delete, RLock, and in every case the deferred RUnlock
GetRest(seen) ==
    IF seen = "expired" THEN <<"RUnlock">> \o DeleteProgram \o <<"RLock", "RUnlock">>
    ELSE <<"RUnlock">>

GetProgram == <<"RLock", "Get.read">>

Program(op) ==
    CASE op = "Get" -> GetProgram
      [] op = "Set" -> SetProgram
      [] op = "Delete" -> DeleteProgram
      [] op = "Clear" -> ClearProgram
      [] op = "Len" -> LenProgram
      [] OTHER -> StatsProgram

CacheOps == {"Get", "Set", "Delete", "Clear", "Len", "Stats"}

\* a goroutine: the call it is in, what is left of it, and how often the call
\* has acquired and released the lock
LockProc(pc, op, todo) == [pc |-> pc, op |-> op, todo |-> todo, acquired |-> 0, released |-> 0]
InCall(p) == procs[p].pc = "call"
Instr(p) == procs[p].todo[1]
Advance(proc) == [proc EXCEPT !.todo = Tail(@), !.pc = IF Len(proc.todo) = 1 THEN "done" ELSE "call"]

InitLocks ==
    /\ imc = [c |-> NewInMemoryCache([TTL |-> CacheTTL, MaxSize |-> CacheMaxSize]), stats |-> NoCount,
              mu |-> NewRWMutex]
    /\ now = 0
    /\ nextTok = 1
    /\ last = NoCall("New")
    /\ procs = [p \in Procs |-> LockProc("idle", "none", <<>>)]
    /\ sm = Nil /\ ref = Nil /\ cacheDelFailed = FALSE /\ destroyed = {}
    /\ pw = Nil /\ nano = Nil /\ reg = Nil

\* a goroutine enters a method of the cache
LCall(p) ==
    \E op \in CacheOps :
      /\ Free(p)
      /\ procs' = [procs EXCEPT ![p] = LockProc("call", op, Program(op))]
      /\ UNCHANGED <<imc, now, nextTok, last, managers, pw, nano, reg>>

\* c.mu.RLock()
LRLock(p) ==
    /\ InCall(p)
    /\ Instr(p) = "RLock"
    /\ CanRLock(imc.mu)
    /\ imc' = [imc EXCEPT !.mu.readers = @ \cup {p}]
    /\ procs' = [procs EXCEPT ![p] = Advance([@ EXCEPT !.acquired = @ + 1])]
    /\ UNCHANGED <<now, nextTok, last, managers, pw, nano, reg>>

\* c.mu.RUnlock()
LRUnlock(p) ==
    /\ InCall(p)
    /\ Instr(p) = "RUnlock"
    /\ imc' = IF p \in imc.mu.readers THEN [imc EXCEPT !.mu.readers = @ \ {p}]
              ELSE [imc EXCEPT !.mu.fatal = TRUE]
    /\ procs' = [procs EXCEPT ![p] = Advance([@ EXCEPT !.released = @ + 1])]
    /\ UNCHANGED <<now, nextTok, last, managers, pw, nano, reg>>

\* c.mu.Lock() is called
LLock(p) ==
    /\ InCall(p)
    /\ Instr(p) = "Lock"
    /\ imc' = [imc EXCEPT !.mu.waiting = @ \cup {p}]
    /\ procs' = [procs EXCEPT ![p] = Advance(@)]
    /\ UNCHANGED <<now, nextTok, last, managers, pw, nano, reg>>

\* c.mu.Lock() returns
LAcquire(p) ==
    /\ InCall(p)
    /\ Instr(p) = "Acquire"
    /\ CanAcquire(imc.mu, p)
    /\ imc' = [imc EXCEPT !.mu.waiting = @ \ {p}, !.mu.writer = p]
    /\ procs' = [procs EXCEPT ![p] = Advance([@ EXCEPT !.acquired = @ + 1])]
    /\ UNCHANGED <<now, nextTok, last, managers, pw, nano, reg>>

\* c.mu.Unlock()
LUnlock(p) ==
    /\ InCall(p)
    /\ Instr(p) = "Unlock"
    /\ imc' = IF imc.mu.writer = p THEN [imc EXCEPT !.mu.writer = 0]
              ELSE [imc EXCEPT !.mu.fatal = TRUE]
    /\ procs' = [procs EXCEPT ![p] = Advance([@ EXCEPT !.released = @ + 1])]
    /\ UNCHANGED <<now, nextTok, last, managers, pw, nano, reg>>

\* what a method does between its lock operations
LBody(p) ==
    \E victim \in (DOMAIN imc.c.cache) \cup {HashToken(EmptyToken)} :
      /\ InCall(p)
      /\ Instr(p) \in {"Get.read", "Set.body", "Delete.body", "Clear.body", "Len.body", "Stats.load"}
      /\ victim \in DOMAIN imc.c.cache \/ DOMAIN imc.c.cache = {}
      /\ imc' = [imc EXCEPT !.c =
            CASE Instr(p) = "Set.body" -> InMemoryCache_Set(@, LockKey, CachedSession(LockKey), now, victim).c
              [] Instr(p) = "Delete.body" -> InMemoryCache_Delete(@, LockKey).c
              [] Instr(p) = "Clear.body" -> InMemoryCache_Clear(@).c
              [] OTHER -> @]
      /\ procs' = [procs EXCEPT ![p] =
            IF Instr(p) = "Get.read"
            THEN [@ EXCEPT !.todo = GetRest(InMemoryCache_Read(imc.c, LockKey, now))]
            ELSE Advance(@)]
      /\ UNCHANGED <<now, nextTok, last, managers, pw, nano, reg>>

NextLocks ==
    \/ \E p \in Procs : LCall(p)
    \/ \E p \in Procs : LRLock(p)
    \/ \E p \in Procs : LRUnlock(p)
    \/ \E p \in Procs : LLock(p)
    \/ \E p \in Procs : LAcquire(p)
    \/ \E p \in Procs : LUnlock(p)
    \/ \E p \in Procs : LBody(p)
    \/ Tick

SpecLocks == InitLocks /\ [][NextLocks]_vars

\* ------------------------------------------------------ password hashing
\* A string is the sequence of its pieces: literal text, a decimal numeral,
\* or the base64 text of a byte string.  No piece holds a "$" or a ","
\* except the pieces "$" and "," themselves.
NoBytes == [src |-> "none", password |-> "", salt |-> 0, saltLen |-> 0, time |-> 0, memory |-> 0,
            threads |-> 0, len |-> 0]
Lit(text) == [t |-> "lit", s |-> text, n |-> 0, b |-> NoBytes]
Num(n) == [t |-> "num", s |-> "", n |-> n, b |-> NoBytes]
B64(bytes) == [t |-> "b64", s |-> "", n |-> 0, b |-> bytes]

\* rand.Read(make([]byte, len)): draw n of the random source
RandBytes(n, len) == IF len = 0 THEN NoBytes ELSE [NoBytes EXCEPT !.src = "rand", !.salt = n, !.len = len]

\* argon2.IDKey: keyLen bytes that differ as soon as one argument differs
IDKey(password, salt, time, memory, threads, keyLen) ==
    IF keyLen = 0 THEN NoBytes
    ELSE [src |-> "argon2id", password |-> password, salt |-> salt.salt, saltLen |-> salt.len,
          time |-> time, memory |-> memory, threads |-> threads, len |-> keyLen]

\* subtle.ConstantTimeCompare: 1 when the byte strings are equal, else 0
ConstantTimeCompare(x, y) == IF x = y THEN 1 ELSE 0

\* base64.RawStdEncoding
EncodeToString(bytes) == IF bytes.len = 0 THEN <<>> ELSE <<B64(bytes)>>
DecodeString(text) ==
    IF text = <<>> THEN [bytes |-> NoBytes, err |-> NoErr]
    ELSE IF Len(text) = 1 /\ text[1].t = "b64" THEN [bytes |-> text[1].b, err |-> NoErr]
    ELSE [bytes |-> NoBytes, err |-> "illegal base64 data"]

\* strings.Split
RECURSIVE Split(_, _)
Split(text, sep) ==
    IF \A i \in DOMAIN text : text[i] # Lit(sep) THEN <<text>>
    ELSE LET i == CHOOSE j \in DOMAIN text :
                    text[j] = Lit(sep) /\ \A k \in 1..(j - 1) : text[k] # Lit(sep)
         IN  <<SubSeq(text, 1, i - 1)>> \o Split(SubSeq(text, i + 1, Len(text)), sep)

\* fmt.Sscanf(text, prefix + "%d", &n): the text has to start with the prefix
\* and a numeral; what follows the numeral is not read
Sscanf(text, prefix) ==
    IF Len(text) >= 2 /\ text[1] = Lit(prefix) /\ text[2].t = "num"
    THEN [n |-> text[2].n, err |-> NoErr]
    ELSE [n |-> 0, err |-> "input does not match format"]

Argon2Version == 19

NewArgon2 == [Memory |-> 65536, Iterations |-> 3, Parallelism |-> 2, SaltLength |-> 16, KeyLength |-> 32]

\* n: the draw of the random source the salt is; rnd: "ok" or "fail"
Argon2_Hash(a, password, n, rnd) ==
    LET salt == RandBytes(n, a.SaltLength)
        hash == IDKey(password, salt, a.Iterations, a.Memory, a.Parallelism, a.KeyLength)
    IN  IF rnd # "ok" THEN [encoded |-> <<>>, err |-> "failed to generate salt"]
        ELSE [encoded |-> <<Lit("$"), Lit("argon2id"),
                            Lit("$"), Lit("v="), Num(Argon2Version),
                            Lit("$"), Lit("m="), Num(a.Memory), Lit(","), Lit("t="), Num(a.Iterations),
                                      Lit(","), Lit("p="), Num(a.Parallelism),
                            Lit("$")>> \o EncodeToString(salt) \o <<Lit("$")>> \o EncodeToString(hash),
              err |-> NoErr]

DecodeFailed(err) == [params |-> Nil, salt |-> NoBytes, hash |-> NoBytes, err |-> err]

\* mutant: decodeArgon2Hash that takes every algorithm name
decodeArgon2Hash_AnyAlgorithm(encodedHash) ==
    LET parts == Split(encodedHash, "$")
        paramParts == Split(parts[4], ",")
        salt == DecodeString(parts[5])
        hash == DecodeString(parts[6])
    IN  IF Len(parts) # 6 THEN DecodeFailed("invalid hash format")
        ELSE IF Sscanf(parts[3], "v=").err # NoErr THEN DecodeFailed("invalid version")
        ELSE IF Len(paramParts) # 3 THEN DecodeFailed("invalid parameters format")
        ELSE IF Sscanf(paramParts[1], "m=").err # NoErr THEN DecodeFailed("invalid memory parameter")
        ELSE IF Sscanf(paramParts[2], "t=").err # NoErr THEN DecodeFailed("invalid iterations parameter")
        ELSE IF Sscanf(paramParts[3], "p=").err # NoErr THEN DecodeFailed("invalid parallelism parameter")
        ELSE IF salt.err # NoErr THEN DecodeFailed("invalid salt encoding")
        ELSE IF hash.err # NoErr THEN DecodeFailed("invalid hash encoding")
        ELSE [params |-> [Memory |-> Sscanf(paramParts[1], "m=").n,
                          Iterations |-> Sscanf(paramParts[2], "t=").n,
                          Parallelism |-> Sscanf(paramParts[3], "p=").n % 256,
                          SaltLength |-> 0,
                          KeyLength |-> hash.bytes.len],
              salt |-> salt.bytes, hash |-> hash.bytes, err |-> NoErr]

decodeArgon2Hash(encodedHash) ==
    LET parts == Split(encodedHash, "$")
        paramParts == Split(parts[4], ",")
        salt == DecodeString(parts[5])
        hash == DecodeString(parts[6])
    IN  IF Len(parts) # 6 THEN DecodeFailed("invalid hash format")
        ELSE IF parts[2] # <<Lit("argon2id")>> THEN DecodeFailed("unsupported algorithm")
        ELSE IF Sscanf(parts[3], "v=").err # NoErr THEN DecodeFailed("invalid version")
        ELSE IF Len(paramParts) # 3 THEN DecodeFailed("invalid parameters format")
        ELSE IF Sscanf(paramParts[1], "m=").err # NoErr THEN DecodeFailed("invalid memory parameter")
        ELSE IF Sscanf(paramParts[2], "t=").err # NoErr THEN DecodeFailed("invalid iterations parameter")
        ELSE IF Sscanf(paramParts[3], "p=").err # NoErr THEN DecodeFailed("invalid parallelism parameter")
        ELSE IF salt.err # NoErr THEN DecodeFailed("invalid salt encoding")
        ELSE IF hash.err # NoErr THEN DecodeFailed("invalid hash encoding")
        ELSE [params |-> [Memory |-> Sscanf(paramParts[1], "m=").n,
                          Iterations |-> Sscanf(paramParts[2], "t=").n,
                          Parallelism |-> Sscanf(paramParts[3], "p=").n % 256,
                          SaltLength |-> 0,
                          KeyLength |-> hash.bytes.len],
              salt |-> salt.bytes, hash |-> hash.bytes, err |-> NoErr]

\* mutant: Verify that derives the key with the hasher's own cost parameters
Argon2_Verify_OwnParameters(a, password, encodedHash) ==
    LET d == decodeArgon2Hash(encodedHash)
        computedHash == IDKey(password, d.salt, a.Iterations, a.Memory, a.Parallelism, a.KeyLength)
    IN  IF d.err # NoErr THEN [ok |-> FALSE, err |-> d.err]
        ELSE [ok |-> ConstantTimeCompare(d.hash, computedHash) = 1, err |-> NoErr]

Argon2_Verify(a, password, encodedHash) ==
    LET d == decodeArgon2Hash(encodedHash)
        computedHash == IDKey(password, d.salt, d.params.Iterations, d.params.Memory,
                              d.params.Parallelism, d.params.KeyLength)
    IN  IF d.err # NoErr THEN [ok |-> FALSE, err |-> d.err]
        ELSE [ok |-> ConstantTimeCompare(d.hash, computedHash) = 1, err |-> NoErr]

\* Hash and Verify are called with hashers of any configuration; Verify is
\* given the stored encoding or a string that differs from it in one place.
Argon2Configs ==
    {NewArgon2, [Memory |-> 32768, Iterations |-> 2, Parallelism |-> 1, SaltLength |-> 8, KeyLength |-> 16]}
Passwords == {"test", "testPassword"}

ReplaceAt(text, i, x) == [text EXCEPT ![i] = x]
DeleteAt(text, i) == SubSeq(text, 1, i - 1) \o SubSeq(text, i + 1, Len(text))
InsertAt(text, i, x) == SubSeq(text, 1, i - 1) \o <<x>> \o SubSeq(text, i, Len(text))

\* the strings one edit away from an encoding, and the strings of the tests
Variants(encoded) ==
    {ReplaceAt(encoded, i, Lit("!")) : i \in DOMAIN encoded}
    \cup {DeleteAt(encoded, i) : i \in DOMAIN encoded}
    \cup {InsertAt(encoded, i, x) : i \in 1..(Len(encoded) + 1), x \in {Lit("$"), Lit(","), Lit("!")}}
    \cup {ReplaceAt(encoded, i, Lit("argon2i")) : i \in {j \in DOMAIN encoded : encoded[j] = Lit("argon2id")}}
    \cup {ReplaceAt(encoded, i, Num(encoded[i].n + 256)) : i \in {j \in DOMAIN encoded : encoded[j].t = "num"}}
    \cup {<<>>, <<Lit("invalid-hash")>>}

PasswordCall(op, a, password, encodedHash, ok, err) ==
    [op |-> op, a |-> a, password |-> password, hash |-> encodedHash, ok |-> ok, err |-> err]

InitPassword ==
    /\ pw = [encoded |-> <<>>, password |-> "", by |-> NewArgon2, hashed |-> FALSE]
    /\ last = PasswordCall("New", NewArgon2, "", <<>>, FALSE, NoErr)
    /\ now = 0
    /\ nextTok = 1
    /\ procs = [p \in Procs |-> IdleProc]
    /\ sm = Nil /\ ref = Nil /\ cacheDelFailed = FALSE /\ destroyed = {}
    /\ imc = Nil /\ nano = Nil /\ reg = Nil

\* a.Hash(password); the encoding is stored
PHash ==
    \E a \in Argon2Configs, password \in Passwords, n \in Tokens, rnd \in {"ok", "fail"} :
      LET r == Argon2_Hash(a, password, n, rnd)
      IN  /\ pw' = IF r.err = NoErr
                   THEN [encoded |-> r.encoded, password |-> password, by |-> a, hashed |-> TRUE]
                   ELSE pw
          /\ last' = PasswordCall("Hash", a, password, r.encoded, FALSE, r.err)
          /\ UNCHANGED <<now, nextTok, procs, managers, imc, nano, reg>>

\* a.Verify(password, encodedHash)
PVerify ==
    \E a \in Argon2Configs, password \in Passwords, encodedHash \in {pw.encoded} \cup Variants(pw.encoded) :
      LET r == Argon2_Verify(a, password, encodedHash)
      IN  /\ last' = PasswordCall("Verify", a, password, encodedHash, r.ok, r.err)
          /\ UNCHANGED <<pw, now, nextTok, procs, managers, imc, nano, reg>>

NextPassword == PHash \/ PVerify

SpecPassword == InitPassword /\ [][NextPassword]_vars

\* ------------------------------------------------------------ tokens
\* the empty string, as a stored hash
EmptyHash == <<>>
DefaultTokenLength == 32
ErrTooManyArgs == "too many arguments. expected only 1"

\* the token is draw n of the random source, byteLength bytes long
generateToken(byteLength, n, rnd) ==
    IF rnd # "ok" THEN [token |-> EmptyToken, bytes |-> 0, err |-> RandErr]
    ELSE [token |-> n, bytes |-> IF byteLength <= 0 THEN DefaultTokenLength ELSE byteLength, err |-> NoErr]

\* byteLength: the sequence of the variadic arguments
GenerateHashedToken(byteLength, n, rnd) ==
    LET length == IF Len(byteLength) > 0 /\ byteLength[1] > 0 THEN byteLength[1] ELSE DefaultTokenLength
        t == generateToken(length, n, rnd)
    IN  IF Len(byteLength) > 1 THEN [pair |-> Nil, bytes |-> 0, err |-> ErrTooManyArgs]
        ELSE IF t.err # NoErr THEN [pair |-> Nil, bytes |-> 0, err |-> t.err]
        ELSE [pair |-> [Token |-> t.token, Hash |-> HashToken(t.token)], bytes |-> t.bytes, err |-> NoErr]

\* mutant: VerifyToken without the check of its arguments
VerifyToken_NoInputCheck(token, storedHash) ==
    [ok |-> ConstantTimeCompare(HashToken(token), storedHash) = 1, err |-> NoErr]

VerifyToken(token, storedHash) ==
    IF token = EmptyToken \/ storedHash = EmptyHash
    THEN [ok |-> FALSE, err |-> "token and hash cannot be empty"]
    ELSE [ok |-> ConstantTimeCompare(HashToken(token), storedHash) = 1, err |-> NoErr]

\* the length arguments, tokens and stored hashes the functions are called with
LengthArgs == {<<>>, <<0>>, <<-1>>, <<16>>, <<16, 32>>}
AnyToken == 0..BogusToken
\* a digest, a digest in upper case, a digest of another hash function, a
\* digest cut short, the empty string
HashArgs ==
    {HashToken(t) : t \in 1..BogusToken} \cup {<<"SHA256", t>> : t \in 1..BogusToken}
    \cup {<<"md5", t>> : t \in 1..BogusToken} \cup {<<"sha256">>, EmptyHash}

TokenCall(op, token, storedHash, r) ==
    [op |-> op, token |-> token, hash |-> storedHash, res |-> r]

InitToken ==
    /\ nextTok = 1
    /\ last = TokenCall("New", EmptyToken, EmptyHash, [err |-> NoErr])
    /\ now = 0
    /\ procs = [p \in Procs |-> IdleProc]
    /\ sm = Nil /\ ref = Nil /\ cacheDelFailed = FALSE /\ destroyed = {}
    /\ imc = Nil /\ pw = Nil /\ nano = Nil /\ reg = Nil

TGenerateHashedToken ==
    \E byteLength \in LengthArgs, rnd \in {"ok", "fail"} :
      LET r == GenerateHashedToken(byteLength, nextTok, rnd)
      IN  /\ nextTok <= MaxTokens
          /\ nextTok' = IF r.err = NoErr THEN nextTok + 1 ELSE nextTok
          /\ last' = TokenCall("GenerateHashedToken", EmptyToken, EmptyHash, r)
          /\ UNCHANGED <<now, procs, managers, units>>

TVerifyToken ==
    \E token \in AnyToken, storedHash \in HashArgs :
      /\ last' = TokenCall("VerifyToken", token, storedHash, VerifyToken(token, storedHash))
      /\ UNCHANGED <<now, nextTok, procs, managers, units>>

THashToken ==
    \E token \in AnyToken :
      /\ last' = TokenCall("HashToken", token, EmptyHash, [hash |-> HashToken(token), err |-> NoErr])
      /\ UNCHANGED <<now, nextTok, procs, managers, units>>

NextToken == TGenerateHashedToken \/ TVerifyToken \/ THashToken

SpecToken == InitToken /\ [][NextToken]_vars

\* ------------------------------------------------------------ NanoID
\* An alphabet is the sequence of its characters; a character is one byte,
\* except the characters of NonASCII and the byte InvalidUTF8.
defaultAlphabet ==
    <<"A", "B", "C", "D", "E", "F", "G", "H", "I", "J", "K", "L", "M", "N", "O", "P",
      "Q", "R", "S", "T", "U", "V", "W", "X", "Y", "Z", "a", "b", "c", "d", "e", "f",
      "g", "h", "i", "j", "k", "l", "m", "n", "o", "p", "q", "r", "s", "t", "u", "v",
      "w", "x", "y", "z", "0", "1", "2", "3", "4", "5", "6", "7", "8", "9", "_", "-">>
defaultSize == 22
maxAlphabetSize == 255
minAlphabetSize == 8
NonASCII == {"e-acute"}
InvalidUTF8 == "0xFF"

ErrTooManyInputAlphabet == "must only provide 1 set of alphabet"
ErrAlphabetTooLong == "alphabet must contain no more than 255 characters"
ErrAlphabetTooShort == "alphabet must contain at least 8 characters"
ErrAlphabetInvalidUTF8 == "alphabet must contain valid UTF-8"
ErrAlphabetNotASCII == "alphabet must contain only ASCII characters"

RECURSIVE Pow2(_)
Pow2(k) == IF k = 0 THEN 1 ELSE 2 * Pow2(k - 1)

\* x & y on bytes
RECURSIVE BitAnd(_, _)
BitAnd(x, y) == IF x = 0 \/ y = 0 THEN 0 ELSE (x % 2) * (y % 2) + 2 * BitAnd(x \div 2, y \div 2)

\* len(alphabet), in bytes
ByteLen(alphabet) == Len(alphabet) + Cardinality({i \in DOMAIN alphabet : alphabet[i] \in NonASCII})

\* mutant: the first mask that is at least alphabetLen - 1
getMask_AtLeast(alphabetLen) ==
    LET fits == {i \in 1..8 : Pow2(i + 1) - 1 >= alphabetLen - 1}
    IN  IF fits # {} THEN Pow2((CHOOSE i \in fits : \A j \in fits : i <= j) + 1) - 1
        ELSE maxAlphabetSize

\* mutant: the largest index of the alphabet as the mask
getMask_LargestIndex(alphabetLen) == alphabetLen - 1

getMask(alphabetLen) ==
    LET fits == {i \in 1..8 : Pow2(i + 1) - 1 > alphabetLen - 1}
    IN  IF fits # {} THEN Pow2((CHOOSE i \in fits : \A j \in fits : i <= j) + 1) - 1
        ELSE maxAlphabetSize

\* a: the sequence of the variadic arguments
NewNanoID(a) ==
    LET alphabet == IF Len(a) = 0 \/ a[1] = <<>> THEN defaultAlphabet ELSE a[1]
    IN  IF Len(a) > 1 THEN [gen |-> Nil, err |-> ErrTooManyInputAlphabet]
        ELSE IF \E i \in DOMAIN alphabet : alphabet[i] = InvalidUTF8
        THEN [gen |-> Nil, err |-> ErrAlphabetInvalidUTF8]
        ELSE IF \E i \in DOMAIN alphabet : alphabet[i] \in NonASCII
        THEN [gen |-> Nil, err |-> ErrAlphabetNotASCII]
        ELSE IF ByteLen(alphabet) > maxAlphabetSize THEN [gen |-> Nil, err |-> ErrAlphabetTooLong]
        ELSE IF ByteLen(alphabet) < minAlphabetSize THEN [gen |-> Nil, err |-> ErrAlphabetTooShort]
        ELSE [gen |-> [alphabet |-> alphabet, mask |-> getMask(ByteLen(alphabet))], err |-> NoErr]

\* Generate: size, and the length of the buffer of random bytes,
\* ceil(1.6 * mask * size / alphabetLen)
GenerateSize(length) == IF Len(length) > 0 /\ length[1] > 0 THEN length[1] ELSE defaultSize
GenerateStep(gen, size) ==
    (8 * gen.mask * size + 5 * Len(gen.alphabet) - 1) \div (5 * Len(gen.alphabet))

\* mutant: every byte gives a character, its index reduced modulo the alphabet length
MapByte_Modulo(gen, byte) ==
    [use |-> TRUE, char |-> gen.alphabet[(byte % Len(gen.alphabet)) + 1]]

\* Generate, lines 96-102: what one random byte contributes
MapByte(gen, byte) ==
    LET index == BitAnd(byte, gen.mask % 256)
    IN  IF index < Len(gen.alphabet) THEN [use |-> TRUE, char |-> gen.alphabet[index + 1]]
        ELSE [use |-> FALSE, char |-> ""]

\* the arguments of NewNanoID and Generate, and what rand.Read gives: the
\* bytes of a pattern, over and over
MaxNanoSize == 2
AlphabetArgs ==
    {<<>>, <<<<>>>>, <<<<"A", "B", "C", "D", "1", "2", "3", "4">>>>,
     <<<<"0", "1", "2", "3", "4", "5", "6", "7", "8", "9">>>>,
     <<<<"A", "B", "C", "D", "1", "2", "3">>>>,
     <<<<"A", "B", "C", "D", "1", "2", "3", "e-acute">>>>,
     <<<<"A", "B", "C", "D", "1", "2", "3", "0xFF">>>>,
     <<[i \in 1..256 |-> "a"]>>,
     <<<<"A", "B", "C", "D", "1", "2", "3", "4">>, <<"A", "B", "C", "D", "1", "2", "3", "4">>>>}
NanoLengthArgs == {<<>>, <<0>>, <<-5>>, <<1, 50>>} \cup {<<n>> : n \in 1..MaxNanoSize}
RandByteValues == {0, 9, 200, 255}
RandPatterns == {<<x, y>> : x \in RandByteValues, y \in RandByteValues}
ZeroByte == "0x00"

NanoIdle(r) ==
    [gen |-> r.gen, newErr |-> r.err, pc |-> "idle", length |-> <<>>, size |-> 0, step |-> 0,
     id |-> <<>>, position |-> 0, buffer |-> <<>>, i |-> 0, pattern |-> <<0>>, offset |-> 0,
     result |-> <<>>, err |-> NoErr]

InitNanoID ==
    /\ \E a \in AlphabetArgs : nano = NanoIdle(NewNanoID(a))
    /\ last = [op |-> "NewNanoID"]
    /\ now = 0
    /\ nextTok = 1
    /\ procs = [p \in Procs |-> IdleProc]
    /\ sm = Nil /\ ref = Nil /\ cacheDelFailed = FALSE /\ destroyed = {}
    /\ imc = Nil /\ pw = Nil /\ reg = Nil

\* Generate is called: lines 76-85
NGenerate ==
    \E length \in NanoLengthArgs, pattern \in RandPatterns :
      LET size == GenerateSize(length)
      IN  /\ nano.gen # Nil
          /\ nano.pc \in {"idle", "done"}
          /\ nano' = [NanoIdle([gen |-> nano.gen, err |-> nano.newErr]) EXCEPT
                        !.pc = "loop", !.length = length, !.size = size,
                        !.step = GenerateStep(nano.gen, size),
                        !.id = [j \in 1..size |-> ZeroByte],
                        !.buffer = [j \in 1..GenerateStep(nano.gen, size) |-> 0],
                        !.pattern = pattern]
          /\ last' = [op |-> "Generate"]
          /\ UNCHANGED <<now, nextTok, procs, managers, imc, pw, reg>>

\* the outer loop and rand.Read(buffer): lines 87-91
NRead ==
    \E rnd \in {"ok", "fail"} :
      /\ nano.pc = "loop"
      /\ nano.position < nano.size
      /\ nano' = IF rnd # "ok" THEN [nano EXCEPT !.pc = "done", !.result = <<>>, !.err = RandErr]
                 ELSE [nano EXCEPT !.pc = "map", !.i = 0,
                         !.buffer = [j \in 1..nano.step |->
                                       nano.pattern[((nano.offset + j - 1) % Len(nano.pattern)) + 1]],
                         !.offset = (nano.offset + nano.step) % Len(nano.pattern)]
      /\ last' = [op |-> "rand.Read"]
      /\ UNCHANGED <<now, nextTok, procs, managers, imc, pw, reg>>

\* one round of the inner loop: lines 94-103
NMap ==
    /\ nano.pc = "map"
    /\ IF nano.i < nano.step /\ nano.position < nano.size
       THEN LET m == MapByte(nano.gen, nano.buffer[nano.i + 1])
            IN  nano' = IF m.use
                        THEN [nano EXCEPT !.id[nano.position + 1] = m.char, !.position = @ + 1, !.i = @ + 1]
                        ELSE [nano EXCEPT !.i = @ + 1]
       ELSE nano' = [nano EXCEPT !.pc = "loop"]
    /\ last' = [op |-> "map"]
    /\ UNCHANGED <<now, nextTok, procs, managers, imc, pw, reg>>

\* return string(id), nil: line 106
NReturn ==
    /\ nano.pc = "loop"
    /\ nano.position >= nano.size
    /\ nano' = [nano EXCEPT !.pc = "done", !.result = nano.id, !.err = NoErr]
    /\ last' = [op |-> "return"]
    /\ UNCHANGED <<now, nextTok, procs, managers, imc, pw, reg>>

NextNanoID == NGenerate \/ NRead \/ NMap \/ NReturn

SpecNanoID == InitNanoID /\ [][NextNanoID]_vars

\* ------------------------------------------- NanoID: the mask and the bytes
\* NewNanoID with an alphabet of every accepted length, then the inner loop of
\* Generate over a buffer that holds every byte value once, in order.  The
\* character at index i of the alphabet is i, and hist counts how many bytes
\* gave each character.
AlphabetLens == minAlphabetSize..maxAlphabetSize
NumByteValues == 256
IndexAlphabet(alphabetLen) == [i \in 1..alphabetLen |-> i - 1]

InitMask ==
    /\ nano = [pc |-> "new", gen |-> Nil, scanned |-> 0, hist |-> <<>>, dropped |-> 0]
    /\ last = [op |-> "none"]
    /\ now = 0
    /\ nextTok = 1
    /\ procs = [p \in Procs |-> IdleProc]
    /\ sm = Nil /\ ref = Nil /\ cacheDelFailed = FALSE /\ destroyed = {}
    /\ imc = Nil /\ pw = Nil /\ reg = Nil

\* NewNanoID: lines 69-72
MNewNanoID ==
    \E alphabetLen \in AlphabetLens :
      /\ nano.pc = "new"
      /\ nano' = [pc |-> "map",
                  gen |-> [alphabet |-> IndexAlphabet(alphabetLen), mask |-> getMask(alphabetLen)],
                  scanned |-> 0, hist |-> [i \in 1..alphabetLen |-> 0], dropped |-> 0]
      /\ last' = [op |-> "NewNanoID"]
      /\ UNCHANGED <<now, nextTok, procs, managers, imc, pw, reg>>

\* one round of the inner loop, lines 94-103, on the byte nano.scanned
MMap ==
    /\ nano.pc = "map"
    /\ nano.scanned < NumByteValues
    /\ \E m \in {MapByte(nano.gen, nano.scanned)} :
         nano' = IF m.use
                 THEN [nano EXCEPT !.scanned = @ + 1, !.hist[m.char + 1] = @ + 1]
                 ELSE [nano EXCEPT !.scanned = @ + 1, !.dropped = @ + 1]
    /\ last' = [op |-> "map"]
    /\ UNCHANGED <<now, nextTok, procs, managers, imc, pw, reg>>

NextMask == MNewNanoID \/ MMap

SpecMask == InitMask /\ [][NextMask]_vars

\* ------------------------------------------------------ endpoint registry
\* Method and Path are strings, written as the sequence of their pieces;
\* Handler names the handler function (Nil for the templates).
Endpoint(method, path, handler, operationID) ==
    [Method |-> method, Path |-> path, Handler |-> handler, OperationID |-> operationID]

BaseEndpoints ==
    <<Endpoint(<<"POST">>, <<"/sign-up">>, "nil", "signUpWithEmailAndPassword"),
      Endpoint(<<"POST">>, <<"/sign-in">>, "nil", "signInWithEmailAndPassword"),
      Endpoint(<<"POST">>, <<"/sign-out">>, "nil", "signOut"),
      Endpoint(<<"GET">>, <<"/session">>, "nil", "getSession"),
      Endpoint(<<"POST">>, <<"/refresh">>, "nil", "refreshToken")>>

\* fmt.Sprintf("%s:%s", ep.Method, ep.Path)
EndpointKey(ep) == ep.Method \o <<":">> \o ep.Path

register(r, ep) ==
    IF Has(r.endpoints, EndpointKey(ep))
    THEN [r |-> r, err |-> "endpoint conflict"]
    ELSE [r |-> [r EXCEPT !.endpoints = MapPut(@, EndpointKey(ep), ep)], err |-> NoErr]

RECURSIVE RegisterAll(_, _, _)
RegisterAll(r, endpoints, i) ==
    IF i > Len(endpoints) THEN r ELSE RegisterAll(register(r, endpoints[i]).r, endpoints, i + 1)

NewEndpointRegistry == RegisterAll([endpoints |-> EmptyMap], BaseEndpoints, 1)

\* RegisterPlugin, lines 137-140: r.endpoints[key] = ep for every endpoint
RECURSIVE PutAll(_, _, _)
PutAll(m, endpoints, i) ==
    IF i > Len(endpoints) THEN m
    ELSE PutAll(MapPut(m, EndpointKey(endpoints[i]), endpoints[i]), endpoints, i + 1)

\* mutant: RegisterPlugin that registers the endpoints one by one and stops
\* at the first conflict
RECURSIVE RegisterPlugin_OneByOne(_, _)
RegisterPlugin_OneByOne(r, endpoints) ==
    IF endpoints = <<>> THEN [r |-> r, err |-> NoErr]
    ELSE IF register(r, Head(endpoints)).err # NoErr
    THEN [r |-> r, err |-> "plugin endpoint conflict"]
    ELSE RegisterPlugin_OneByOne(register(r, Head(endpoints)).r, Tail(endpoints))

RegisterPlugin(r, endpoints) ==
    IF \E i \in DOMAIN endpoints : Has(r.endpoints, EndpointKey(endpoints[i]))
    THEN [r |-> r, err |-> "plugin endpoint conflict"]
    ELSE IF \E i, j \in DOMAIN endpoints : i < j /\ EndpointKey(endpoints[i]) = EndpointKey(endpoints[j])
    THEN [r |-> r, err |-> "plugin contains duplicate endpoint"]
    ELSE [r |-> [r EXCEPT !.endpoints = PutAll(@, endpoints, 1)], err |-> NoErr]

\* the endpoints of plugins: new ones, one of a base endpoint, two with the
\* same method and path, two whose methods and paths differ and give one key
MaxBatch == 2
PluginEndpoints ==
    {Endpoint(<<"GET">>, <<"/plugin">>, "h1", "pluginGet"),
     Endpoint(<<"GET">>, <<"/plugin">>, "h2", "pluginGetAgain"),
     Endpoint(<<"POST">>, <<"/plugin">>, "h3", "pluginPost"),
     Endpoint(<<"GET">>, <<"/session">>, "h4", "pluginSession"),
     Endpoint(<<"GET", ":", "/a">>, <<"/b">>, "h5", "pluginA"),
     Endpoint(<<"GET">>, <<"/a", ":", "/b">>, "h6", "pluginB")}
Batches == UNION {[1..n -> PluginEndpoints] : n \in 0..MaxBatch}

InitRegistry ==
    /\ reg = NewEndpointRegistry
    /\ last = [op |-> "NewEndpointRegistry", endpoints |-> <<>>, err |-> NoErr]
    /\ now = 0
    /\ nextTok = 1
    /\ procs = [p \in Procs |-> IdleProc]
    /\ sm = Nil /\ ref = Nil /\ cacheDelFailed = FALSE /\ destroyed = {}
    /\ imc = Nil /\ pw = Nil /\ nano = Nil

RRegisterPlugin ==
    \E endpoints \in Batches :
      LET r == RegisterPlugin(reg, endpoints)
      IN  /\ reg' = r.r
          /\ last' = [op |-> "RegisterPlugin", endpoints |-> endpoints, err |-> r.err]
          /\ UNCHANGED <<now, nextTok, procs, managers, imc, pw, nano>>

NextRegistry == RRegisterPlugin

SpecRegistry == InitRegistry /\ [][NextRegistry]_vars

\* ------------------------------------------------------------ properties
NotFoundOutcomes == {ErrSessionNotFound, FakeNotFound}
CacheConfigured == sm.cache # Nil
NoCacheFault == last.fault[1] # "cache"
\* the digest of the session a Destroy or DestroyBySessionID call names
LastDigest == IF last.op = "DestroyBySessionID" THEN HashToken(last.id[2]) ELSE HashToken(last.token)
LastToken == IF last.op = "DestroyBySessionID" THEN last.id[2] ELSE last.token

C2_NoHitAfterDestroy ==
    CacheConfigured
    => /\ \A p \in Procs :
            (procs[p].pc = "done" /\ procs[p].op = "Verify" /\ procs[p].after) => procs[p].err # NoErr
       /\ (\A p \in Procs : Free(p)) => \A t \in destroyed : ~Has(sm.cache.cache, HashToken(t))

\* C3: Verify returns no session whose expiry has passed; on a cache hit of
\* a session whose expiry has passed it removes the cache entry and returns
\* ErrSessionExpired.
C3_VerifyChecksExpiry ==
    [][LET h == HashToken(last'.token)
           expiredHit == /\ CacheConfigured
                         /\ last'.token # EmptyToken
                         /\ last'.fault[1] # "cache"
                         /\ Cache_Get(sm.cache, h, now).err = NoErr
                         /\ now > Cache_Get(sm.cache, h, now).session.ExpiresAt
       IN  last'.op = "Verify"
           => /\ last'.res.err = NoErr => ~(now' > last'.res.session.ExpiresAt)
              /\ expiredHit => (last'.res.err = ErrSessionExpired /\ ~Has(sm'.cache.cache, h))]_vars

\* a Verify has just met a cached session whose expiry has passed
C3_Witness ==
    /\ last.op = "Verify"
    /\ last.res.err = ErrSessionExpired
    /\ last.path = "cache"
    /\ CacheConfigured
    /\ sm.cache.kind = "InMemoryCache"
    /\ ~Has(sm.cache.cache, HashToken(last.token))

\* C4 (as claimed): with a cache configured, a Destroy(token) whose Storage
\* delete-by-digest returned an error has deleted the digest from the cache
\* when it returns.
C4_CacheDeletedOnStorageError ==
    (last.op = "Destroy" /\ last.res.err \notin {NoErr, ErrInvalidToken} /\ CacheConfigured /\ NoCacheFault)
    => ~Has(sm.cache.cache, HashToken(last.token))

\* C5 (as claimed): a Verify that fails with ErrSessionExpired leaves no
\* record of the session in Storage, with and without a cache.
C5_ExpiredIsPurged ==
    (last.op = "Verify" /\ last.res.err = ErrSessionExpired)
    => ~Has(sm.storage.sessions, HashToken(last.token))

CreateStored ==
    /\ Has(sm.storage.sessions, HashToken(last.res.token))
    /\ sm.storage.sessions[HashToken(last.res.token)] = last.res.session
    /\ (CacheConfigured /\ sm.cache.kind # "fakeFailingCache")
       => /\ Has(sm.cache.cache, HashToken(last.res.token))
          /\ sm.cache.cache[HashToken(last.res.token)].session = last.res.session
CreateVerifies ==
    \A victim \in VictimChoices :
      LET v == Verify(sm, last.res.token, now, victim)
      IN  v.err = NoErr /\ v.session.UserID = last.user

C9_CreateFailsWithoutCaching ==
    [][(last'.op = "Create" /\ last'.fault = <<"storage", "createErr">>)
       => /\ last'.res.err = InjectedCreateErr
          /\ last'.res.session = Nil
          /\ last'.res.token = EmptyToken
          /\ sm'.cache = sm.cache
          /\ sm'.storage = sm.storage]_vars

C9_Witness ==
    /\ last.op = "Create"
    /\ last.fault = <<"storage", "createErr">>
    /\ last.res.err = InjectedCreateErr
    /\ CacheConfigured
    /\ sm.cache.kind = "FakeCache"
    /\ DOMAIN sm.cache.cache # {}

CounterDelta(io, stat) ==
    Cardinality({i \in DOMAIN io : io[i][1] = "cache.Get" /\ io[i][3] = stat})

\* C12: an empty argument is rejected before any I/O.  Verify(""),
\* Destroy("") and Refresh("") return ErrInvalidToken, DestroyBySessionID("")
\* returns ErrSessionNotFound, DestroyAllUserSessions("") returns
\* (0, ErrUserNotFound); the call makes no Storage and no cache operation, and
\* session records, cache entries and hit/miss counters are as before.
C12_EmptyArgumentTouchesNothing ==
    [][LET emptyToken == last'.op \in {"Verify", "Destroy", "Refresh"} /\ last'.token = EmptyToken
           emptyID == last'.op = "DestroyBySessionID" /\ last'.id = EmptyID
           emptyUser == last'.op = "DestroyAllUserSessions" /\ last'.user = EmptyUser
       IN  /\ emptyToken => last'.res.err = ErrInvalidToken
           /\ emptyID => last'.res.err = ErrSessionNotFound
           /\ emptyUser => (last'.res.err = ErrUserNotFound /\ last'.res.count = 0)
           /\ (emptyToken \/ emptyID \/ emptyUser)
              => /\ last'.io = <<>>
                 /\ CounterDelta(last'.io, "hit") = 0
                 /\ CounterDelta(last'.io, "miss") = 0
                 /\ last'.res.session = Nil
                 /\ last'.res.token = EmptyToken
                 /\ sm' = sm]_vars

\* Destroy("") has been rejected while Storage and the cache hold sessions
C12_Witness ==
    /\ last.op = "Destroy"
    /\ last.token = EmptyToken
    /\ last.res.err = ErrInvalidToken
    /\ last.io = <<>>
    /\ CacheConfigured
    /\ DOMAIN sm.cache.cache # {}
    /\ DOMAIN sm.storage.sessions # {}

\* C13 (as claimed): a session is Expired as soon as now >= expiry, so a
\* Verify performed at the instant now = expiry fails with ErrSessionExpired,
\* on the cache-hit path and on the Storage path: a Verify that returns a
\* session returns one with now < expiry.
C13_ExpiredAtExpiryInstant ==
    (last.op = "Verify" /\ last.path \in {"cache", "storage"} /\ last.res.err = NoErr)
    => now < last.res.session.ExpiresAt

\* C14: DestroyAllUserSessions(u) deletes from Storage exactly the sessions
\* owned by u and returns their number; the sessions of every other user
\* stay in Storage and their tokens still verify; a configured cache whose
\* Clear works is emptied when the number is > 0 and unchanged when it is 0.
C14_DestroyAllRemovesOnlyOwner ==
    [][(last'.op = "DestroyAllUserSessions" /\ last'.user # EmptyUser)
       => LET u == last'.user
              before == sm.storage.sessions
              after == sm'.storage.sessions
              owned == {k \in DOMAIN before : before[k].UserID = u}
          IN  /\ last'.res.err = NoErr
              /\ last'.res.count = Cardinality(owned)
              /\ DOMAIN after = (DOMAIN before) \ owned
              /\ \A k \in DOMAIN after :
                   /\ after[k] = before[k]
                   /\ ~(now' > after[k].ExpiresAt)
                      => \A victim \in DOMAIN after :
                           LET v == Verify(sm', k[2], now', victim)
                           IN  v.err = NoErr /\ v.session = after[k]
              /\ (CacheConfigured /\ last'.fault[1] # "cache")
                 => /\ last'.res.count > 0 => sm'.cache.cache = EmptyMap
                    /\ last'.res.count = 0 => sm'.cache = sm.cache]_vars

\* a user's sessions have been destroyed while another user's session stays
C14_Witness ==
    /\ last.op = "DestroyAllUserSessions"
    /\ last.res.err = NoErr
    /\ last.res.count > 0
    /\ \E k \in DOMAIN sm.storage.sessions :
         sm.storage.sessions[k].UserID # last.user /\ ~(now > sm.storage.sessions[k].ExpiresAt)
    /\ CacheConfigured
    /\ sm.cache.kind = "FakeCache"
    /\ sm.cache.cache = EmptyMap

\* C15: DestroyBySessionID(id) attempts the Storage delete-by-id even when
\* the lookup by id fails and returns the result of that delete; for an id
\* with no record it changes neither Storage nor the cache, and a second call
\* after a successful one leaves Storage and the cache as the first left them.
C15_DestroyBySessionIDIsIdempotent ==
    [][(last'.op = "DestroyBySessionID" /\ last'.id # EmptyID)
       => LET id == last'.id
              st == WithFault(sm, last'.fault).storage
              known == \E k \in DOMAIN sm.storage.sessions : sm.storage.sessions[k].ID = id
              again == DestroyBySessionID(sm', id)
          IN  /\ last'.io[Len(last'.io)] = IO("storage.DeleteSessionByID", id)
              /\ last'.res.err = DeleteSessionByID(st, id).err
              /\ ~known => (sm' = sm /\ last'.res.err \in {ErrSessionNotFound, InjectedDeleteErr})
              /\ last'.res.err = NoErr => (again.m = sm' /\ again.err = ErrSessionNotFound)]_vars

\* a DestroyBySessionID of an id with no record, with a cache configured:
\* the lookup failed and the delete was attempted
C15_Witness ==
    /\ last.op = "DestroyBySessionID"
    /\ last.id = NanoID(BogusToken)
    /\ last.res.err = ErrSessionNotFound
    /\ CacheConfigured
    /\ last.io = <<IO("storage.GetSessionByID", last.id), IO("storage.DeleteSessionByID", last.id)>>
    /\ DOMAIN sm.storage.sessions # {}
    /\ DOMAIN sm.cache.cache # {}

\* the goroutines whose Destroy of the token got past the Storage delete
DestroyWinners(ps, token) ==
    {p \in Procs : /\ ps[p].op = "Destroy"
                   /\ ps[p].token = token
                   /\ \/ ps[p].pc = "dCache"
                      \/ (ps[p].pc = "done" /\ ps[p].err = NoErr)}

\* C16: concurrent Destroy calls for the same token.  The call that finds
\* the record deletes it and is the only one to return nil; every call that
\* finds the digest already deleted returns ErrSessionNotFound and changes
\* nothing; once all calls have finished the digest of a destroyed token is
\* in neither Storage nor the cache.
C16_ConcurrentDestroyIsConsistent ==
    [][/\ \A p \in Procs :
            (procs[p].pc = "dStorage" /\ procs'[p].pc # "dStorage")
            => LET h == HashToken(procs[p].token)
               IN  IF Has(sm.storage.sessions, h)
                   THEN /\ procs'[p].err = NoErr
                        /\ ~Has(sm'.storage.sessions, h)
                        /\ procs[p].token \notin destroyed
                   ELSE /\ procs'[p].pc = "done"
                        /\ procs'[p].err = ErrSessionNotFound
                        /\ sm' = sm
       /\ \A t \in Tokens : Cardinality(DestroyWinners(procs', t)) <= 1
       /\ (\A p \in Procs : procs'[p].pc \in {"idle", "done"})
          => \A t \in destroyed' :
               /\ ~Has(sm'.storage.sessions, HashToken(t))
               /\ sm'.cache # Nil => ~Has(sm'.cache.cache, HashToken(t))]_vars

\* two Destroy calls of one token overlap: one is past the Storage delete and
\* has not yet deleted the cache entry, the other has returned
\* ErrSessionNotFound
C16_Witness ==
    \E p, q \in Procs :
      /\ procs[p].op = "Destroy" /\ procs[p].pc = "dCache"
      /\ procs[q].op = "Destroy" /\ procs[q].pc = "done"
      /\ procs[q].token = procs[p].token
      /\ procs[q].err = ErrSessionNotFound
      /\ Has(sm.cache.cache, HashToken(procs[p].token))

\* the operations of Storage and of the cache that are given a token digest
DigestOps ==
    {"storage.CreateSession", "storage.GetSessionByHash", "storage.DeleteSessionByHash",
     "cache.Get", "cache.Set", "cache.Delete"}
SessionFields ==
    {"ID", "UserID", "TokenHash", "IPAddress", "UserAgent", "ExpiresAt", "CreatedAt", "UpdatedAt"}
IsDigest(x) == x[1] = "sha256"
\* a session record holds the digest and nothing else derived from the token
HoldsOnlyDigest(session) == DOMAIN session = SessionFields /\ IsDigest(session.TokenHash)

\* C17: Storage records and cache entries, keys and values, contain only the
\* token digest; every Storage or cache operation keyed by the token is given
\* the digest; the raw token is returned only by the Create or Refresh call
\* that minted it.
C17_OnlyDigestIsStored ==
    /\ \A k \in DOMAIN sm.storage.sessions :
         /\ IsDigest(k)
         /\ HoldsOnlyDigest(sm.storage.sessions[k])
         /\ sm.storage.sessions[k].TokenHash = k
    /\ CacheConfigured
       => \A k \in DOMAIN sm.cache.cache :
            /\ IsDigest(k)
            /\ HoldsOnlyDigest(sm.cache.cache[k].session)
            /\ sm.cache.cache[k].session.TokenHash = k
    /\ \A i \in DOMAIN last.io : last.io[i][1] \in DigestOps => IsDigest(last.io[i][2])
    /\ last.res.token # EmptyToken
       => /\ last.op \in {"Create", "Refresh"}
          /\ last.res.err = NoErr
          /\ last.res.session.TokenHash = HashToken(last.res.token)
    /\ last.res.session # Nil => HoldsOnlyDigest(last.res.session)

\* a Create has returned a token; Storage and the cache hold the session
\* under the digest
C17_Witness ==
    /\ last.op = "Create"
    /\ last.res.err = NoErr
    /\ last.res.token # EmptyToken
    /\ Has(sm.storage.sessions, HashToken(last.res.token))
    /\ CacheConfigured
    /\ Has(sm.cache.cache, HashToken(last.res.token))
    /\ Len(last.io) = 2

\* every session record the manager holds or has just returned
SessionsHeld ==
    {sm.storage.sessions[k] : k \in DOMAIN sm.storage.sessions}
    \cup (IF CacheConfigured THEN {sm.cache.cache[k].session : k \in DOMAIN sm.cache.cache} ELSE {})
    \cup (IF last.op \in {"Create", "Refresh"} /\ last.res.err = NoErr THEN {last.res.session} ELSE {})

\* C18 (as claimed): every session produced by Create, hence every record in
\* Storage or the cache, has an expiry strictly after its creation time, for
\* every configured max-age.
C18_ExpiryAfterCreation ==
    \A s \in SessionsHeld : s.ExpiresAt > s.CreatedAt

\* C18 (amended): every such session has expiry = creation time + max-age,
\* which is strictly after the creation time when the configured max-age is
\* positive and not after it otherwise.
C18_ExpiryIsCreationPlusMaxAge ==
    \A s \in SessionsHeld :
      /\ s.ExpiresAt = s.CreatedAt + sm.config
      /\ sm.config > 0 => s.ExpiresAt > s.CreatedAt
      /\ sm.config <= 0 => ~(s.ExpiresAt > s.CreatedAt)

\* under a positive max-age a session created after the epoch is stored and
\* cached
C18_Witness ==
    /\ sm.config > 0
    /\ last.op = "Create"
    /\ last.res.err = NoErr
    /\ last.res.session.CreatedAt > 0
    /\ CacheConfigured
    /\ Has(sm.cache.cache, last.res.session.TokenHash)
    /\ Has(sm.storage.sessions, last.res.session.TokenHash)

\* C19: no operation changes a session in place.  A record that stays in
\* Storage, or a session that stays in the cache, is the same before and after
\* every call, with the expiry Create gave it; a cached session equals the
\* Storage record of its digest; no call makes an UpdateSession; a successful
\* Refresh removes the old record and creates one with a new id and digest.
C19_SessionsAreImmutable ==
    [][/\ \A k \in (DOMAIN sm.storage.sessions) \cap (DOMAIN sm'.storage.sessions) :
            sm'.storage.sessions[k] = sm.storage.sessions[k]
       /\ \A k \in DOMAIN sm'.storage.sessions :
            /\ sm'.storage.sessions[k].ExpiresAt = sm'.storage.sessions[k].CreatedAt + sm'.config
            /\ sm'.storage.sessions[k].ID = NanoID(k[2])
       /\ CacheConfigured
          => /\ \A k \in (DOMAIN sm.cache.cache) \cap (DOMAIN sm'.cache.cache) :
                  sm'.cache.cache[k].session = sm.cache.cache[k].session
             /\ \A k \in DOMAIN sm'.cache.cache :
                  /\ sm'.cache.cache[k].session.ExpiresAt = sm'.cache.cache[k].session.CreatedAt + sm'.config
                  /\ Has(sm'.storage.sessions, k) => sm'.cache.cache[k].session = sm'.storage.sessions[k]
       /\ \A i \in DOMAIN last'.io : last'.io[i][1] # "storage.UpdateSession"
       /\ (last'.op = "Refresh" /\ last'.res.err = NoErr)
          => /\ ~Has(sm'.storage.sessions, last'.old.TokenHash)
             /\ last'.res.session.ID # last'.old.ID
             /\ last'.res.session.TokenHash # last'.old.TokenHash
             /\ Has(sm'.storage.sessions, last'.res.session.TokenHash)
             /\ sm'.storage.sessions[last'.res.session.TokenHash] = last'.res.session]_vars

\* a Verify has read from Storage, and cached, a session created at an
\* earlier clock reading
C19_Witness ==
    /\ last.op = "Verify"
    /\ last.path = "storage"
    /\ last.res.err = NoErr
    /\ now > last.res.session.CreatedAt
    /\ CacheConfigured
    /\ Has(sm.cache.cache, last.res.session.TokenHash)
    /\ sm.storage.sessions[last.res.session.TokenHash] = last.res.session

\* a cache whose operations work, in general and in the last call
WorkingCache == CacheConfigured /\ sm.cache.kind \in {"InMemoryCache", "FakeCache"} /\ NoCacheFault

\* C20: Verify is cache-aside.  With a working cache, a Verify that misses
\* the cache reads Storage and writes the valid record into the cache, and
\* the next Verify of the same token is a hit that makes no Storage read: the
\* two calls count one miss and one hit.  After a Clear of the cache the
\* first Verify of any token is not served from the cache.
C20_VerifyIsCacheAside ==
    /\ (last.op = "Verify" /\ last.path = "storage" /\ last.res.err = NoErr /\ WorkingCache)
       => LET h == HashToken(last.token)
          IN  /\ last.io = <<IOGet(h, "miss"), IO("storage.GetSessionByHash", h), IO("cache.Set", h)>>
              /\ Has(sm.cache.cache, h)
              /\ sm.cache.cache[h].session = last.res.session
              /\ \A victim \in VictimChoices :
                   LET next == Verify(sm, last.token, now, victim)
                   IN  /\ next.err = NoErr
                       /\ next.session = last.res.session
                       /\ next.path = "cache"
                       /\ next.io = <<IOGet(h, "hit")>>
                       /\ CounterDelta(last.io \o next.io, "miss") = 1
                       /\ CounterDelta(last.io \o next.io, "hit") = 1
    /\ (last.op = "DestroyAllUserSessions" /\ last.res.count > 0 /\ WorkingCache)
       => \A t \in Issued, victim \in VictimChoices :
            LET first == Verify(sm, t, now, victim)
            IN  first.path = "storage" /\ CounterDelta(first.io, "miss") = 1

\* a Verify has missed the cache, read the session from Storage and cached it
C20_Witness ==
    /\ last.op = "Verify"
    /\ last.path = "storage"
    /\ last.res.err = NoErr
    /\ WorkingCache
    /\ sm.cache.kind = "FakeCache"
    /\ DOMAIN sm.cache.cache = {HashToken(last.token)}
    /\ CounterDelta(last.io, "miss") = 1

StorageWorks == last.fault[1] # "storage"

C21_LenWithinMaxSize == InMemoryCache_Len(imc.c) <= imc.c.maxSize

\* a Set has evicted an entry of a cache of two entries, which is full again
C21_Witness ==
    /\ last.op = "Set"
    /\ last.count.evictions = 1
    /\ imc.c.maxSize = 2
    /\ InMemoryCache_Len(imc.c) = 2

\* C22: a Set of a key that is not cached, made when the cache holds maxSize
\* entries, evicts exactly one entry, adds 1 to evictions and 1 to sets, and
\* leaves maxSize entries, the new key among them; a Set below capacity
\* evicts nothing and adds 1 to sets only.
C22_SetEvictsOneAtCapacity ==
    [][last'.op = "Set"
       => LET before == imc.c.cache
              after == imc'.c.cache
              tokenHash == last'.key
          IN  /\ Has(after, tokenHash)
              /\ after[tokenHash] = [session |-> CachedSession(tokenHash), cachedAt |-> now]
              /\ \A k \in (DOMAIN before) \cap (DOMAIN after) : k # tokenHash => after[k] = before[k]
              /\ (~Has(before, tokenHash) /\ Cardinality(DOMAIN before) = imc.c.maxSize)
                 => /\ Cardinality((DOMAIN before) \ (DOMAIN after)) = 1
                    /\ Cardinality(DOMAIN after) = imc.c.maxSize
                    /\ imc'.stats = AddCount(imc.stats, AddCount(Count("evictions"), Count("sets")))
              /\ Cardinality(DOMAIN before) < imc.c.maxSize
                 => /\ DOMAIN after = (DOMAIN before) \cup {tokenHash}
                    /\ imc'.stats = AddCount(imc.stats, Count("sets"))]_vars

\* a Set of a third key has evicted one of the two entries of a full cache
C22_Witness ==
    /\ last.op = "Set"
    /\ last.count = AddCount(Count("evictions"), Count("sets"))
    /\ imc.c.maxSize = 2
    /\ InMemoryCache_Len(imc.c) = 2
    /\ imc.stats.sets = 3
    /\ imc.stats.evictions = 1

\* C23: Get returns the cached session while the age of the entry is at most
\* the TTL and leaves the entry in place; once the age exceeds the TTL, Get
\* returns ErrCacheNotFound and the entry is gone when Get returns, the
\* length of the cache having dropped by one when Get removed it.
C23_GetExpiresAfterTTL ==
    [][/\ (last'.op \in {"Get", "Get.Read"} /\ procs[last'.proc].pc # "Get.Delete"
           /\ Has(imc.c.cache, last'.key))
          => IF now - imc.c.cache[last'.key].cachedAt <= imc.c.ttl
             THEN /\ last'.op = "Get"
                  /\ last'.err = NoErr
                  /\ last'.session = imc.c.cache[last'.key].session
                  /\ imc'.c = imc.c
             ELSE /\ last'.op = "Get.Read"
                  /\ procs'[last'.proc].pc = "Get.Delete"
                  /\ procs'[last'.proc].tokenHash = last'.key
       /\ (last'.op = "Get" /\ procs[last'.proc].pc = "Get.Delete")
          => /\ last'.err = ErrCacheNotFound
             /\ last'.session = Nil
             /\ ~Has(imc'.c.cache, last'.key)
             /\ InMemoryCache_Len(imc'.c) =
                  IF Has(imc.c.cache, last'.key) THEN InMemoryCache_Len(imc.c) - 1 ELSE InMemoryCache_Len(imc.c)
             /\ \A k \in DOMAIN imc'.c.cache : imc'.c.cache[k] = imc.c.cache[k]]_vars

\* a Get of an entry older than the TTL has returned and emptied the cache
C23_Witness ==
    /\ last.op = "Get"
    /\ last.err = ErrCacheNotFound
    /\ last.count.deletes = 1
    /\ imc.stats.hits = 1
    /\ InMemoryCache_Len(imc.c) = 0
    /\ now > imc.c.ttl

\* C24: a Get that finds an entry older than the TTL adds 1 to misses and 1
\* to evictions and nothing else; a Get that hits adds 1 to hits only; a Get
\* of an absent key adds 1 to misses only.
C24_GetCounters ==
    [][last'.op = "Get"
       => IF procs[last'.proc].pc = "Get.Delete"
          THEN last'.count = AddCount(Count("misses"), Count("evictions"))
          ELSE /\ last'.count = IF Has(imc.c.cache, last'.key) THEN Count("hits") ELSE Count("misses")
               /\ imc'.stats = AddCount(imc.stats, last'.count)]_vars

\* ----------------------------------------- properties of the password hasher
\* C25: for every password p and hasher configurations A and B,
\* B.Verify(p, A.Hash(p)) is true and B.Verify(q, A.Hash(p)) is false for
\* every q other than p, both without error.
C25_VerifyAcrossInstances ==
    (last.op = "Verify" /\ pw.hashed /\ last.hash = pw.encoded)
    => /\ last.err = NoErr
       /\ last.ok = (last.password = pw.password)

\* a hasher has verified the password against an encoding made by a hasher
\* of another configuration
C25_Witness ==
    /\ last.op = "Verify"
    /\ pw.hashed
    /\ last.hash = pw.encoded
    /\ last.a # pw.by
    /\ last.password = pw.password
    /\ last.ok

\* the encodings that C26 lists
Malformed(encodedHash) ==
    LET parts == Split(encodedHash, "$")
        paramParts == Split(parts[4], ",")
    IN  \/ Len(parts) # 6
        \/ parts[2] # <<Lit("argon2id")>>
        \/ Sscanf(parts[3], "v=").err # NoErr
        \/ Len(paramParts) # 3
        \/ \E i \in 1..3 : Sscanf(paramParts[i], <<"m=", "t=", "p=">>[i]).err # NoErr
        \/ DecodeString(parts[5]).err # NoErr
        \/ DecodeString(parts[6]).err # NoErr

\* C26: Verify returns an error, and never (false, nil), when the encoding
\* has not exactly 6 "$"-separated segments, names another algorithm than
\* argon2id, has a version, memory, iterations or parallelism field that
\* does not parse, has not exactly 3 cost parameters, or has a salt or key
\* segment that is not base64.
C26_MalformedEncodingIsAnError ==
    (last.op = "Verify" /\ Malformed(last.hash)) => (last.err # NoErr /\ ~last.ok)

\* Verify has rejected an encoding of six segments whose key is not base64
C26_Witness ==
    /\ last.op = "Verify"
    /\ Len(Split(last.hash, "$")) = 6
    /\ Malformed(last.hash)
    /\ last.err = "invalid hash encoding"

\* ------------------------------------------------------ properties of tokens
\* C27: VerifyToken(t, d) returns an error exactly when t or d is empty;
\* otherwise it is true exactly when d is HashToken(t).  It is true for the
\* pair made by GenerateHashedToken, false for that digest and any other
\* token, and a call repeated with the same arguments gives the same result.
C27_VerifyTokenMatchesDigest ==
    [][/\ last'.op = "VerifyToken"
          => /\ (last'.res.err # NoErr) <=> (last'.token = EmptyToken \/ last'.hash = EmptyHash)
             /\ last'.res.err # NoErr => ~last'.res.ok
             /\ last'.res.err = NoErr => (last'.res.ok <=> last'.hash = HashToken(last'.token))
             /\ (last.op = "VerifyToken" /\ last.token = last'.token /\ last.hash = last'.hash)
                => last'.res = last.res
       /\ (last'.op = "GenerateHashedToken" /\ last'.res.err = NoErr)
          => /\ last'.res.pair.Token # EmptyToken
             /\ last'.res.pair.Hash # EmptyHash
             /\ \A t \in AnyToken \ {EmptyToken} :
                  /\ VerifyToken(t, last'.res.pair.Hash).err = NoErr
                  /\ VerifyToken(t, last'.res.pair.Hash).ok <=> (t = last'.res.pair.Token)]_vars

\* VerifyToken has accepted the second generated token with its digest
C27_Witness ==
    /\ last.op = "VerifyToken"
    /\ last.res.err = NoErr
    /\ last.res.ok
    /\ last.token = 2
    /\ nextTok > 2

\* ------------------------------------------------------ properties of NanoID
AlphabetChars(gen) == {gen.alphabet[i] : i \in DOMAIN gen.alphabet}

\* C28: with a valid alphabet, Generate(n) for n > 0 returns n characters
\* of the alphabet, and Generate() or Generate(n) for n <= 0 returns 22; a
\* random byte gives a character only when (byte AND mask) is less than
\* the length of the alphabet, and the character is the one at that index.
C28_GenerateLengthAndAlphabet ==
    [][/\ (nano'.pc = "done" /\ nano.pc # "done" /\ nano'.err = NoErr)
          => /\ Len(nano'.result) =
                   IF Len(nano'.length) > 0 /\ nano'.length[1] > 0 THEN nano'.length[1] ELSE 22
             /\ \A j \in DOMAIN nano'.result : nano'.result[j] \in AlphabetChars(nano'.gen)
       /\ (nano.pc = "map" /\ nano'.pc = "map")
          => LET byte == nano.buffer[nano.i + 1]
                 index == BitAnd(byte, nano.gen.mask)
             IN  /\ nano.gen.mask \in {Pow2(k) - 1 : k \in 1..8}
                 /\ nano.gen.mask >= Len(nano.gen.alphabet) - 1
                 /\ IF index < Len(nano.gen.alphabet)
                    THEN /\ nano'.position = nano.position + 1
                         /\ nano'.id = [nano.id EXCEPT ![nano.position + 1] = nano.gen.alphabet[index + 1]]
                    ELSE /\ nano'.position = nano.position
                         /\ nano'.id = nano.id]_vars

\* Generate() has returned 22 characters of the alphabet of ten digits after
\* leaving out bytes whose masked value is no index of the alphabet
C28_Witness ==
    /\ nano.pc = "done"
    /\ nano.err = NoErr
    /\ nano.length = <<>>
    /\ Len(nano.result) = 22
    /\ Len(nano.gen.alphabet) = 10
    /\ nano.pattern = <<9, 255>>

\* ---------------------------------------- properties of the endpoint registry
\* C29: RegisterPlugin is all-or-nothing.  If an endpoint of the batch has a
\* METHOD:PATH that is in the registry, or the batch holds a METHOD:PATH
\* twice, it returns an error and the registry is unchanged; otherwise every
\* endpoint of the batch is added.  Every endpoint of the registry is held
\* under its own METHOD:PATH, so no two have the same.
C29_RegisterPluginIsAllOrNothing ==
    [][last'.op = "RegisterPlugin"
       => LET batch == last'.endpoints
              keys == {EndpointKey(batch[i]) : i \in DOMAIN batch}
              conflict == keys \cap DOMAIN reg.endpoints # {}
              twice == Cardinality(keys) < Len(batch)
          IN  /\ IF conflict \/ twice
                 THEN last'.err # NoErr /\ reg' = reg
                 ELSE /\ last'.err = NoErr
                      /\ DOMAIN reg'.endpoints = DOMAIN reg.endpoints \cup keys
                      /\ \A i \in DOMAIN batch : reg'.endpoints[EndpointKey(batch[i])] = batch[i]
                      /\ \A k \in DOMAIN reg.endpoints : reg'.endpoints[k] = reg.endpoints[k]
              /\ \A k \in DOMAIN reg'.endpoints : EndpointKey(reg'.endpoints[k]) = k
              /\ \A i \in DOMAIN BaseEndpoints :
                   reg'.endpoints[EndpointKey(BaseEndpoints[i])] = BaseEndpoints[i]]_vars

\* a batch whose second endpoint is already registered has been refused,
\* after a batch of two endpoints was added
C29_Witness ==
    /\ last.op = "RegisterPlugin"
    /\ last.err = "plugin endpoint conflict"
    /\ Len(last.endpoints) = 2
    /\ ~Has(reg.endpoints, EndpointKey(last.endpoints[1]))
    /\ Has(reg.endpoints, EndpointKey(last.endpoints[2]))
    /\ Cardinality(DOMAIN reg.endpoints) = Len(BaseEndpoints) + 2

\* ------------------------------- properties of the InMemoryCache, continued
\* C32: the eviction of an expired entry by Get re-checks before it deletes.
\* When the Delete that ends a Get of an expired entry runs and the key holds
\* an entry that is not expired (another caller has Set it since Get read the
\* expired one), the entry is in the cache, unchanged, after Get returns.
C32_GetEvictionRechecks ==
    [][\A p \in Procs :
         (procs[p].pc = "Get.Delete" /\ last'.op = "Get" /\ last'.proc = p)
         => LET tokenHash == procs[p].tokenHash
            IN  InMemoryCache_Read(imc.c, tokenHash, now) = "hit"
                => /\ Has(imc'.c.cache, tokenHash)
                   /\ imc'.c.cache[tokenHash] = imc.c.cache[tokenHash]]_vars

\* C40: Set of a key that is already cached never removes a different key.
\* When the cache holds maxSize entries and Set overwrites one of them, every
\* other entry stays as it was, the length is unchanged and the call counts no
\* eviction.
C40_OverwriteEvictsNothing ==
    [][(/\ last'.op = "Set"
        /\ Has(imc.c.cache, last'.key)
        /\ InMemoryCache_Len(imc.c) >= imc.c.maxSize)
       => /\ \A k \in DOMAIN imc.c.cache \ {last'.key} :
                Has(imc'.c.cache, k) /\ imc'.c.cache[k] = imc.c.cache[k]
          /\ InMemoryCache_Len(imc'.c) = InMemoryCache_Len(imc.c)
          /\ last'.count.evictions = 0]_vars

\* ------------------------------------------ properties of the NanoID mask
\* C33: for every alphabet length L in 8..255 the mask is the smallest value
\* of the form 2^k - 1 that is at least L - 1.
C33_MaskIsSmallestAtLeast ==
    nano.pc = "map"
    => LET alphabetLen == Len(nano.gen.alphabet)
           form == {Pow2(k) - 1 : k \in 0..9}
       IN  /\ nano.gen.mask \in form
           /\ nano.gen.mask >= alphabetLen - 1
           /\ \A v \in form : v >= alphabetLen - 1 => nano.gen.mask <= v

\* C33, amended: for every alphabet length L in 8..255 the mask is the
\* smallest value of the form 2^k - 1 that is greater than L - 1, so that an
\* alphabet of 8, 16, 32, 64 or 128 characters gets the mask 2L - 1.
C33_MaskIsSmallestAbove ==
    nano.pc = "map"
    => LET alphabetLen == Len(nano.gen.alphabet)
           form == {Pow2(k) - 1 : k \in 0..9}
       IN  /\ nano.gen.mask \in form
           /\ nano.gen.mask > alphabetLen - 1
           /\ \A v \in form : v > alphabetLen - 1 => nano.gen.mask <= v

\* the generator of an alphabet of 8 characters has the mask 15
C33_Witness ==
    /\ nano.pc = "map"
    /\ Len(nano.gen.alphabet) = 8
    /\ nano.gen.mask = 15

\* C34: rejection sampling is unbiased for every alphabet length L in 8..255.
\* A byte gives the character at index byte mod (mask + 1) when that is an
\* index of the alphabet and is left out otherwise; over the 256 byte values
\* every index 0..L-1 is given by the same number of them, 256 / (mask + 1).
C34_SamplingIsUnbiased ==
    [][(nano.pc = "map" /\ nano'.pc = "map")
       => LET alphabetLen == Len(nano.gen.alphabet)
              index == nano.scanned % (nano.gen.mask + 1)
          IN  /\ NumByteValues % (nano.gen.mask + 1) = 0
              /\ IF index >= alphabetLen
                 THEN nano'.hist = nano.hist /\ nano'.dropped = nano.dropped + 1
                 ELSE /\ nano'.hist = [nano.hist EXCEPT ![index + 1] = @ + 1]
                      /\ nano'.dropped = nano.dropped
              /\ nano'.scanned = NumByteValues
                 => /\ \A i \in 1..alphabetLen :
                         nano'.hist[i] = NumByteValues \div (nano.gen.mask + 1)
                    /\ nano'.dropped =
                         NumByteValues - alphabetLen * (NumByteValues \div (nano.gen.mask + 1))]_vars

\* every byte value has gone through the loop for an alphabet of 10 characters:
\* each character was given by 16 bytes and 96 bytes were left out
C34_Witness ==
    /\ nano.pc = "map"
    /\ nano.scanned = NumByteValues
    /\ Len(nano.gen.alphabet) = 10
    /\ nano.hist[3] = 16
    /\ nano.dropped = 96

CreateErrors == {InjectedCreateErr, RandErr}

\* C36: Refresh is not atomic.  When its Create step fails (the Storage write
\* or the generation of the token or the id) after Verify and Destroy have
\* succeeded, Refresh returns that error, the old session is gone from Storage
\* and from the cache, Storage has gained no session, and no token verifies
\* that did not before: not the old one, and none that is new.
C36_RefreshIsNotAtomic ==
    [][(last'.op = "Refresh" /\ last'.res.err \in CreateErrors
          /\ Verify(sm, last'.token, now, HashToken(EmptyToken)).err = NoErr)
       => /\ last'.res.session = Nil
          /\ last'.res.token = EmptyToken
          /\ sm'.storage.sessions = MapDel(sm.storage.sessions, HashToken(last'.token))
          /\ ~Has(sm'.storage.sessions, HashToken(last'.token))
          /\ sm'.cache # Nil => ~Has(sm'.cache.cache, HashToken(last'.token))
          /\ \A t \in 1..BogusToken :
               Verify(sm', t, now', HashToken(EmptyToken)).err = NoErr
               => /\ t # last'.token
                  /\ Verify(sm, t, now, HashToken(EmptyToken)).err = NoErr]_vars

\* Refresh of the only session has failed in its Create step: Storage and the
\* cache are empty
C36_Witness ==
    /\ last.op = "Refresh"
    /\ last.token = 1
    /\ last.res.err = InjectedCreateErr
    /\ last.fault = <<"storage", "createErr">>
    /\ CacheConfigured
    /\ sm.cache.kind = "InMemoryCache"
    /\ DOMAIN sm.storage.sessions = {}
    /\ DOMAIN sm.cache.cache = {}
    /\ nextTok = 2

\* -------------------------------------------------- properties of Verify on a shared cache
\* the cache answered Verify's Get with no error
CacheAnswered(call) ==
    /\ call.op = "Verify"
    /\ call.io # <<>>
    /\ call.io[1][1] = "cache.Get"
    /\ call.io[1][3] = "hit"

\* C38: Verify never dereferences a missing session.  When the cache's Get
\* returns no error together with a nil session, Verify treats it as a miss
\* and continues with the Storage lookup.
C38_NilHitIsAMiss ==
    (CacheAnswered(last) /\ last.res.session = Nil /\ last.res.err # ErrSessionExpired)
    => /\ last.res.err # NilDereference
       /\ Len(last.io) >= 2
       /\ last.io[2][1] = "storage.GetSessionByHash"

\* -------------------------------------------------- properties of SignUp
\* C39: SignUp leaves no orphan.  Whenever SignUp returns an error, Storage
\* holds no user, account or session created by that call, whichever step
\* failed after the user was created (the generation of the account id, the
\* creation of the account, the creation of the session).
C39_SignUpLeavesNoOrphan ==
    [][(last'.op = "SignUp" /\ last'.res.err # NoErr)
       => /\ sm'.storage.users = sm.storage.users
          /\ sm'.storage.accounts = sm.storage.accounts
          /\ sm'.storage.sessions = sm.storage.sessions]_vars

\* -------------------------------------------------- properties of concurrent Refresh
\* the goroutines whose Refresh of the token has returned a new session
RefreshWinners(ps, token) ==
    {p \in Procs : ps[p].pc = "done" /\ ps[p].op = "Refresh" /\ ps[p].token = token /\ ps[p].err = NoErr}

\* C37: with a Storage whose delete by digest reports not-found for an absent
\* digest, of the concurrent Refresh calls on one token at most one returns
\* success.
C37_OneRefreshWins ==
    \A token \in 1..BogusToken : Cardinality(RefreshWinners(procs, token)) <= 1

\* two goroutines have refreshed the same token: one has the new session, the
\* other was told by Destroy that the session is gone
C37_Witness ==
    \E p, q \in Procs :
      /\ p # q
      /\ p \in RefreshWinners(procs, 1)
      /\ procs[q].pc = "done"
      /\ procs[q].op = "Refresh.Destroy"
      /\ procs[q].token = 1
      /\ procs[q].err = ErrSessionNotFound

\* -------------------------------------------------- properties of the cache's lock
\* the goroutine's next instruction can be executed
CanStep(p) ==
    /\ InCall(p)
    /\ Instr(p) = "RLock" => CanRLock(imc.mu)
    /\ Instr(p) = "Acquire" => CanAcquire(imc.mu, p)

\* C31: the cache operations are deadlock-free under every interleaving of
\* Get, Set, Delete, Clear, Len and Stats.  While some goroutine is inside a
\* call, one of them can go on; no goroutine holds the read and the write
\* lock together; a body runs under the lock it needs; and every call
\* returns having released the lock as often as it acquired it, holding
\* nothing.
C31_LocksAreDeadlockFree ==
    /\ (\E p \in Procs : InCall(p)) => \E p \in Procs : CanStep(p)
    /\ ~imc.mu.fatal
    /\ \A p \in Procs :
         /\ ~(p \in imc.mu.readers /\ (imc.mu.writer = p \/ p \in imc.mu.waiting))
         /\ ~InCall(p) => /\ procs[p].acquired = procs[p].released
                         /\ p \notin imc.mu.readers
                         /\ imc.mu.writer # p
                         /\ p \notin imc.mu.waiting
         /\ (InCall(p) /\ Instr(p) \in {"Set.body", "Delete.body", "Clear.body"}) => imc.mu.writer = p
         /\ (InCall(p) /\ Instr(p) \in {"Get.read", "Len.body"}) => p \in imc.mu.readers

\* a Get that found an expired entry has released the read lock, called
\* Delete and returned, three acquisitions and three releases, while another
\* goroutine waits for the write lock
C31_Witness ==
    \E p, q \in Procs :
      /\ procs[p].pc = "done"
      /\ procs[p].op = "Get"
      /\ procs[p].acquired = 3
      /\ procs[p].released = 3
      /\ InCall(q)
      /\ q \in imc.mu.waiting

====
